---- MODULE Spec2Model ----
(***************************************************************************)
(* Model of the cleared runtime kernel: the double-entry journal service   *)
(* (internal/journal, internal/id, internal/model) and the sandbox bridge  *)
(* (internal/sandbox/bridge.go).                                           *)
(*                                                                         *)
(* Text is modelled as a sequence of one-character strings, so formatting  *)
(* and parsing are real conversions.  A decimal is an integer number of    *)
(* thousandths ("mills"), which is exact for every value the model uses.   *)
(***************************************************************************)
EXTENDS Integers, Sequences, FiniteSets, TLC

----------------------------------------------------------------------------
(* Bounds of the model.                                                    *)

\* Largest number of entries (pairs of legs) the month files hold together.
MaxEntries == 2
\* Largest number of kills of the process in the middle of AddDouble.
MaxCrashes == 1
\* Number of goroutines that call RunScript (one call each).
NumCallers == 2
\* Largest number of callbacks the child sends.
MaxCallbacks == 2
\* Number of frames a pipe buffers before a write to it blocks.
PipeCap == 1
\* Largest number of Shutdown calls.
MaxShutdowns == 2

\* Legs in a set of legs given to the validator.
MaxLegs == 3

\* The commits of a store.
MaxCommits == 3

\* The highest leg index given to FormatLegID.
MaxLegIndex == 27

\* The pieces in which the operating system takes one frame from a write.
FramePieces == 2

\* Responses the child writes beyond the one of each script.
MaxStrays == 2

----------------------------------------------------------------------------
(* Text helpers.                                                           *)

UpperChars == <<"A", "B", "C", "D", "E", "F", "G", "H", "I", "J", "K", "L", "M",
                "N", "O", "P", "Q", "R", "S", "T", "U", "V", "W", "X", "Y", "Z">>

LowerSeq == <<"a", "b", "c", "d", "e", "f", "g", "h", "i", "j", "k", "l", "m",
              "n", "o", "p", "q", "r", "s", "t", "u", "v", "w", "x", "y", "z">>

DigitChars == <<"0", "1", "2", "3", "4", "5", "6", "7", "8", "9">>

LowerChars == {"a", "b", "c", "d", "e", "f", "g", "h", "i", "j", "k", "l", "m",
               "n", "o", "p", "q", "r", "s", "t", "u", "v", "w", "x", "y", "z"}

DigitOf ==
    [c \in {DigitChars[i] : i \in 1..10} |-> (CHOOSE i \in 1..10 : DigitChars[i] = c) - 1]

IsDigit(c) == c \in DOMAIN DigitOf

DigitVal(c) == DigitOf[c]

RECURSIVE Itoa(_)
\* strconv.Itoa / "%d" for a non-negative integer.
Itoa(n) == IF n < 10 THEN <<DigitChars[n + 1]>>
           ELSE Itoa(n \div 10) \o <<DigitChars[(n % 10) + 1]>>

RECURSIVE ZeroPad(_, _)
\* The "%0<width>d" verb of fmt.Sprintf: left-pad with zeros up to width.
ZeroPad(s, width) == IF Len(s) >= width THEN s ELSE ZeroPad(<<"0">> \o s, width)

RECURSIVE DigitsVal(_)
DigitsVal(s) == IF Len(s) = 0 THEN 0
                ELSE DigitsVal(SubSeq(s, 1, Len(s) - 1)) * 10 + DigitVal(s[Len(s)])

\* strconv.Atoi: an optional sign followed by at least one digit.
Atoi(s) ==
    LET body == IF Len(s) > 0 /\ s[1] \in {"+", "-"} THEN Tail(s) ELSE s
        neg  == Len(s) > 0 /\ s[1] = "-"
    IN  IF Len(body) = 0 \/ \E i \in 1..Len(body) : ~IsDigit(body[i])
        THEN [ok |-> FALSE, val |-> 0]
        ELSE [ok |-> TRUE, val |-> IF neg THEN 0 - DigitsVal(body) ELSE DigitsVal(body)]

RECURSIVE IndexFrom(_, _, _)
IndexFrom(s, sep, i) ==
    IF i > Len(s) THEN 0 ELSE IF s[i] = sep THEN i ELSE IndexFrom(s, sep, i + 1)

\* Position of the first sep in s, 0 if there is none.
IndexOf(s, sep) == IndexFrom(s, sep, 1)

\* strings.SplitN(s, sep, 3): at most three parts, the last one unsplit.
SplitN3(s, sep) ==
    LET i == IndexOf(s, sep)
    IN  IF i = 0 THEN <<s>>
        ELSE LET rest == SubSeq(s, i + 1, Len(s))
                 j    == IndexOf(rest, sep)
             IN  IF j = 0 THEN <<SubSeq(s, 1, i - 1), rest>>
                 ELSE <<SubSeq(s, 1, i - 1), SubSeq(rest, 1, j - 1),
                        SubSeq(rest, j + 1, Len(rest))>>

----------------------------------------------------------------------------
(* internal/id: entry and leg identifiers.                                 *)

FormatEntryID(year, month, seq) ==
    ZeroPad(Itoa(year), 4) \o <<"-">> \o ZeroPad(Itoa(month), 2) \o <<"-">>
        \o ZeroPad(Itoa(seq), 3)

\* string(rune('a' + leg)): the characters from code point 97 on; the
\* lowercase letters are followed by {, |, } and ~.
LegLetters == LowerSeq \o <<"{", "|", "}", "~">>

FormatLegID(entryID, leg) == entryID \o <<LegLetters[leg + 1]>>

RECURSIVE EntryGroup(_)
\* Strips the trailing run of lowercase letters.
EntryGroup(legID) ==
    IF Len(legID) = 0 THEN <<>>
    ELSE IF legID[Len(legID)] \in LowerChars
         THEN EntryGroup(SubSeq(legID, 1, Len(legID) - 1))
         ELSE legID

ParseEntryID(id) ==
    LET base  == EntryGroup(id)
        parts == SplitN3(base, "-")
        bad   == [ok |-> FALSE, year |-> 0, month |-> 0, seq |-> 0]
    IN  IF Len(parts) # 3 THEN bad
        ELSE LET y == Atoi(parts[1])
                 m == Atoi(parts[2])
                 n == Atoi(parts[3])
             IN  IF ~y.ok \/ ~m.ok \/ ~n.ok THEN bad
                 ELSE [ok |-> TRUE, year |-> y.val, month |-> m.val, seq |-> n.val]

----------------------------------------------------------------------------
(* Decimals (shopspring/decimal) as an integer number of thousandths.      *)

DecIsZero(d) == d = 0

Abs(n) == IF n < 0 THEN 0 - n ELSE n

\* Decimal.StringFixed(2): round half away from zero to two places and
\* print sign, integer part, point and exactly two digits.
StringFixed2(d) ==
    LET cents == (Abs(d) + 5) \div 10
        sign  == IF d < 0 /\ cents # 0 THEN <<"-">> ELSE <<>>
    IN  sign \o Itoa(cents \div 100) \o <<".">> \o ZeroPad(Itoa(cents % 100), 2)

\* decimal.NewFromString for the forms [-]digits[.digits], at most three
\* fractional digits (the precision of the model).
NewFromString(s) ==
    LET neg  == Len(s) > 0 /\ s[1] = "-"
        body == IF neg THEN Tail(s) ELSE s
        dot  == IndexOf(body, ".")
        ip   == IF dot = 0 THEN body ELSE SubSeq(body, 1, dot - 1)
        fp   == IF dot = 0 THEN <<>> ELSE SubSeq(body, dot + 1, Len(body))
        okDigits(t) == \A i \in 1..Len(t) : IsDigit(t[i])
        scale == IF Len(fp) = 0 THEN 1000 ELSE IF Len(fp) = 1 THEN 100
                 ELSE IF Len(fp) = 2 THEN 10 ELSE 1
    IN  IF Len(ip) + Len(fp) = 0 \/ Len(fp) > 3 \/ ~okDigits(ip) \/ ~okDigits(fp)
        THEN [ok |-> FALSE, val |-> 0]
        ELSE LET mag == DigitsVal(ip) * 1000 + DigitsVal(fp) * scale
             IN  [ok |-> TRUE, val |-> IF neg THEN 0 - mag ELSE mag]

----------------------------------------------------------------------------
(* internal/model and internal/journal/csv.go: legs and the ledger codec.  *)

\* time.Time.Format("2006-01-02")
FormatDate(d) ==
    ZeroPad(Itoa(d.year), 4) \o <<"-">> \o ZeroPad(Itoa(d.month), 2) \o <<"-">>
        \o ZeroPad(Itoa(d.day), 2)

\* time.Parse("2006-01-02", s)
ParseDate(s) ==
    LET bad == [ok |-> FALSE, val |-> [year |-> 0, month |-> 0, day |-> 0]]
    IN  IF Len(s) # 10 \/ s[5] # "-" \/ s[8] # "-"
           \/ \E i \in {1, 2, 3, 4, 6, 7, 9, 10} : ~IsDigit(s[i])
        THEN bad
        ELSE LET y == DigitsVal(SubSeq(s, 1, 4))
                 m == DigitsVal(SubSeq(s, 6, 7))
                 d == DigitsVal(SubSeq(s, 9, 10))
             IN  IF m \notin 1..12 \/ d \notin 1..31 THEN bad
                 ELSE [ok |-> TRUE, val |-> [year |-> y, month |-> m, day |-> d]]

\* The header line of journal.csv, as the record the CSV reader returns for
\* it (the columns the model carries).
Header ==
    [entry_id |-> <<"entry_id">>, date |-> <<"date">>, account_id |-> <<"account_id">>,
     debit |-> <<"debit">>, credit |-> <<"credit">>]

\* A MarshalLeg that prints a zero amount as 0.00.
MarshalLegZeroText(leg) ==
    [entry_id   |-> leg.EntryID,
     date       |-> FormatDate(leg.Date),
     account_id |-> Itoa(leg.AccountID),
     debit      |-> StringFixed2(leg.Debit),
     credit     |-> StringFixed2(leg.Credit)]

\* MarshalLeg with the credit column filled from the debit amount.
MarshalLegCreditFromDebit(leg) ==
    [entry_id   |-> leg.EntryID,
     date       |-> FormatDate(leg.Date),
     account_id |-> Itoa(leg.AccountID),
     debit      |-> IF ~DecIsZero(leg.Debit) THEN StringFixed2(leg.Debit) ELSE <<>>,
     credit     |-> IF ~DecIsZero(leg.Credit) THEN StringFixed2(leg.Debit) ELSE <<>>]

MarshalLeg(leg) ==
    [entry_id   |-> leg.EntryID,
     date       |-> FormatDate(leg.Date),
     account_id |-> Itoa(leg.AccountID),
     debit      |-> IF ~DecIsZero(leg.Debit) THEN StringFixed2(leg.Debit) ELSE <<>>,
     credit     |-> IF ~DecIsZero(leg.Credit) THEN StringFixed2(leg.Credit) ELSE <<>>]

ZeroLeg ==
    [EntryID |-> <<>>, Date |-> [year |-> 0, month |-> 0, day |-> 0], AccountID |-> 0,
     Debit |-> 0, Credit |-> 0]

UnmarshalLeg(record) ==
    LET date   == ParseDate(record.date)
        acct   == Atoi(record.account_id)
        debit  == IF record.debit # <<>> THEN NewFromString(record.debit)
                  ELSE [ok |-> TRUE, val |-> 0]
        credit == IF record.credit # <<>> THEN NewFromString(record.credit)
                  ELSE [ok |-> TRUE, val |-> 0]
    IN  IF ~date.ok \/ ~acct.ok \/ ~debit.ok \/ ~credit.ok
        THEN [ok |-> FALSE, leg |-> ZeroLeg]
        ELSE [ok |-> TRUE,
              leg |-> [EntryID |-> record.entry_id, Date |-> date.val,
                       AccountID |-> acct.val, Debit |-> debit.val,
                       Credit |-> credit.val]]

RECURSIVE UnmarshalAll(_)
UnmarshalAll(records) ==
    IF Len(records) = 0 THEN <<>>
    ELSE <<UnmarshalLeg(Head(records))>> \o UnmarshalAll(Tail(records))

\* ReadLegs: no record gives no leg; otherwise the first record is skipped
\* as the header, whatever it holds, and every other record must unmarshal.
ReadLegs(records) ==
    IF Len(records) = 0 THEN [ok |-> TRUE, legs |-> <<>>]
    ELSE LET rows == UnmarshalAll(Tail(records))
         IN  IF \E i \in 1..Len(rows) : ~rows[i].ok
             THEN [ok |-> FALSE, legs |-> <<>>]
             ELSE [ok |-> TRUE, legs |-> [i \in 1..Len(rows) |-> rows[i].leg]]

\* An append that writes the rows last leg first.
AppendLegsReversed(records, legs) ==
    records \o [i \in 1..Len(legs) |-> MarshalLeg(legs[Len(legs) + 1 - i])]

\* AppendLegs: the csv.Writer buffers the rows and flushes them together.
AppendLegs(records, legs) == records \o [i \in 1..Len(legs) |-> MarshalLeg(legs[i])]

\* WriteLegs: the header and one row per leg.
WriteLegs(legs) == <<Header>> \o [i \in 1..Len(legs) |-> MarshalLeg(legs[i])]

----------------------------------------------------------------------------
(* internal/journal validation: the six invariants.                        *)

\* The chart of accounts seen through AccountChecker.Exists.
Chart == {1010, 5020}

\* A checker that knows every account.
ExistsAny(id) == TRUE

Exists(id) == id \in Chart

RECURSIVE GroupOrder(_)
\* Base ids of the legs in first-seen order.
GroupOrder(legs) ==
    IF Len(legs) = 0 THEN <<>>
    ELSE LET front == GroupOrder(SubSeq(legs, 1, Len(legs) - 1))
             g     == EntryGroup(legs[Len(legs)].EntryID)
         IN  IF \E i \in 1..Len(front) : front[i] = g THEN front ELSE Append(front, g)

RECURSIVE SumOver(_, _, _)
\* Sum of field f ("Debit" or "Credit") over the legs of group g.
SumOver(legs, g, f) ==
    IF Len(legs) = 0 THEN 0
    ELSE LET leg == legs[Len(legs)]
             v   == IF EntryGroup(leg.EntryID) # g THEN 0
                    ELSE IF f = "Debit" THEN leg.Debit ELSE leg.Credit
         IN  SumOver(SubSeq(legs, 1, Len(legs) - 1), g, f) + v

RECURSIVE Flatten(_)
Flatten(ss) == IF Len(ss) = 0 THEN <<>> ELSE Head(ss) \o Flatten(Tail(ss))

Issue(inv, id) == [Invariant |-> inv, EntryID |-> id]

\* A test of the decimal places that every amount passes.
HasTwoPlacesAny(d) == TRUE

\* decimal: d.Mul(100).Equal(d.Mul(100).Floor())
HasTwoPlaces(d) == (d * 100) % 1000 = 0

\* A test of the sides that every row passes.
OneSidedAny(leg) == TRUE

\* Invariant 2: exactly one of debit / credit is set on the row.
OneSided(leg) == (~DecIsZero(leg.Debit)) # (~DecIsZero(leg.Credit))

\* Issues of invariant 1, one per unbalanced group, in group order.
BalanceIssues(legs) ==
    LET order == GroupOrder(legs)
        bad(g) == SumOver(legs, g, "Debit") # SumOver(legs, g, "Credit")
    IN  Flatten([i \in 1..Len(order) |->
                    IF bad(order[i]) THEN <<Issue(1, order[i])>> ELSE <<>>])

\* Issues of invariants 2, 3, 4 and 6 of one leg, in that order.
LegIssues(leg, year, month) ==
    (IF ~OneSided(leg) THEN <<Issue(2, leg.EntryID)>> ELSE <<>>)
    \o (IF ~Exists(leg.AccountID) THEN <<Issue(3, leg.EntryID)>> ELSE <<>>)
    \o (IF leg.Date.year # year \/ leg.Date.month # month
        THEN <<Issue(4, leg.EntryID)>> ELSE <<>>)
    \o (IF ~DecIsZero(leg.Debit) /\ ~HasTwoPlaces(leg.Debit)
        THEN <<Issue(6, leg.EntryID)>> ELSE <<>>)
    \o (IF ~DecIsZero(leg.Credit) /\ ~HasTwoPlaces(leg.Credit)
        THEN <<Issue(6, leg.EntryID)>> ELSE <<>>)

RECURSIVE ParseAll(_)
\* id.ParseEntryID of every leg's entry id.
ParseAll(legs) ==
    IF Len(legs) = 0 THEN <<>>
    ELSE <<ParseEntryID(Head(legs).EntryID)>> \o ParseAll(Tail(legs))

\* A sweep that passes over entry ids that do not parse.
SequenceIssuesGapsOnly(legs) ==
    LET parsed   == ParseAll(legs)
        seqSeen  == {parsed[i].seq : i \in {j \in 1..Len(legs) : parsed[j].ok}}
        n        == Cardinality(seqSeen)
    IN  Flatten([i \in 1..n |->
                    IF i \notin seqSeen THEN <<Issue(5, <<"seq", i>>)>> ELSE <<>>])

\* Issues of invariant 5: unparseable ids in leg order, then the missing
\* numbers of 1..|seqSeen|.
SequenceIssues(legs) ==
    LET parsed   == ParseAll(legs)
        unparsed == Flatten([i \in 1..Len(legs) |->
                       IF ~parsed[i].ok THEN <<Issue(5, legs[i].EntryID)>> ELSE <<>>])
        seqSeen  == {parsed[i].seq : i \in {j \in 1..Len(legs) : parsed[j].ok}}
        n        == Cardinality(seqSeen)
    IN  unparsed
        \o Flatten([i \in 1..n |->
                       IF i \notin seqSeen THEN <<Issue(5, <<"seq", i>>)>> ELSE <<>>])

\* A ValidateLegs that makes the sweep of invariant 5 first.
ValidateLegsSweepFirst(legs, year, month) ==
    SequenceIssues(legs)
    \o BalanceIssues(legs)
    \o Flatten([i \in 1..Len(legs) |-> LegIssues(legs[i], year, month)])

ValidateLegs(legs, year, month) ==
    BalanceIssues(legs)
    \o Flatten([i \in 1..Len(legs) |-> LegIssues(legs[i], year, month)])
    \o SequenceIssues(legs)

----------------------------------------------------------------------------
(* internal/journal/service.go: the journal service over the repository's  *)
(* month files.                                                            *)

\* Inputs of AddDouble.
Dates == {[year |-> 2025, month |-> 1, day |-> 15], [year |-> 2025, month |-> 2, day |-> 3]}

\* Amounts in thousandths: -0.50, 0, 1.005 and 2.50.
Amounts == {0 - 500, 0, 1005, 2500}

\* Account ids offered for the debit and the credit side; 9999 is not in
\* the chart.
DebitAccounts == {5020, 9999}

CreditAccounts == {1010, 9999}

Params == [Date : Dates, DebitAccount : DebitAccounts, CreditAccount : CreditAccounts,
           Amount : Amounts]

monthDir(year, month) ==
    ZeroPad(Itoa(year), 4) \o <<"/">> \o ZeroPad(Itoa(month), 2)

monthPath(year, month) == monthDir(year, month) \o <<"/", "journal.csv">>

Paths == {monthPath(d.year, d.month) : d \in Dates}

Dirs == {monthDir(d.year, d.month) : d \in Dates}

NoFile == [exists |-> FALSE, records |-> <<>>]

VARIABLES
    dirs,      \* the month directories that exist
    files,     \* path -> [exists, records]: the month files on disk
    w,         \* the locals of the AddDouble call in progress
    last,      \* outcome of the last AddDouble call that returned
    okCount,   \* path -> number of AddDouble calls that returned an id
    crashes    \* number of kills in the middle of AddDouble

jvars == <<dirs, files, w, last, okCount, crashes>>

\* The state of the sandbox bridge (internal/sandbox/bridge.go).
VARIABLES
    nextID,    \* Bridge.nextID
    pending,   \* Bridge.pending: the ids in the in-flight table
    call,      \* caller -> state of its RunScript call
    mu,        \* Bridge.mu: Free or the goroutine blocked in a write
    stdin,     \* frames written to the child's stdin and not yet read by it
    stdout,    \* frames written by the child and not yet read by readLoop
    child,     \* the child process
    done,      \* Bridge.done is closed
    cbs,       \* the handleCallback goroutines, in spawn order
    sd,        \* the goroutine calling Shutdown
    cmd,       \* Bridge.cmd and the host ends of the pipes
    atExit     \* the calls that had not returned when done was closed: those
               \* still sending their request (sending), those waiting for
               \* their response (waiting) and those whose response readLoop
               \* had already delivered (answered)

bvars == <<nextID, pending, call, mu, stdin, stdout, child, done, cbs, sd, cmd, atExit>>

\* A single operation applied to a given input.
VARIABLES
    arg,       \* the input of the operation
    res        \* what the operation returned

pvars == <<arg, res>>

\* A run of an agent by the driver (internal/commands/agent.go).
VARIABLES
    agentLog,  \* Runtime.agentLog: the audit entries collected by ctx_log
    audit,     \* the rows of the audit file
    drv        \* the driver's position, what it returns, and the entries
               \* ctx_log had collected when its RunScript call returned

avars == <<agentLog, audit, drv>>

\* The repository outside the ledger: the versioned store
\* (internal/gitops) and the import directory (internal/importer).
VARIABLES
    git,       \* working tree, index and history of the store, and the
               \* CommitAll call in progress
    inbox      \* import/ and import/processed/, and the calls on them

svars == <<git, inbox>>

vars == <<jvars, bvars, pvars, avars, svars>>

NoArg == [fn |-> "none"]

NoRes == [done |-> FALSE]

PureInit ==
    /\ arg = NoArg
    /\ res = NoRes

AgentInit ==
    /\ agentLog = <<>>
    /\ audit = <<>>
    /\ drv = [pc |-> "idle", err |-> "", collected |-> <<>>]

\* A store with nothing to commit.
NoCommit == [kind |-> "none", step |-> "", hash |-> 0]

GitInit ==
    git = [identity |-> TRUE, work |-> {}, index |-> {}, log |-> <<>>, pc |-> "idle",
           message |-> "", author |-> "", before |-> [index |-> {}, log |-> <<>>],
           ret |-> NoCommit]

\* No import directory.
InboxInit ==
    inbox = [import |-> {}, processed |-> {}, dir |-> FALSE, arrived |-> {}, pc |-> "idle",
             f |-> <<>>, had |-> FALSE, err |-> "", moved |-> {}, scans |-> 0, listed |-> {}]

StoreInit == GitInit /\ InboxInit

Idle ==
    [pc |-> "idle", year |-> 0, month |-> 0, entryID |-> <<>>, newLegs |-> <<>>,
     isNew |-> FALSE, before |-> <<>>, dirsBefore |-> {}]

NoCall ==
    [kind |-> "none", err |-> "", entryID |-> <<>>, path |-> <<>>,
     isNew |-> FALSE, newLegs |-> <<>>, before |-> <<>>, dirsBefore |-> {}]

JournalInit ==
    /\ dirs = {}
    /\ files = [p \in Paths |-> NoFile]
    /\ w = Idle
    /\ last = NoCall
    /\ okCount = [p \in Paths |-> 0]
    /\ crashes = 0

\* ReadMonth on the current disk: a missing file is an empty month.
ReadMonth(year, month) ==
    LET f == files[monthPath(year, month)]
    IN  IF ~f.exists THEN [ok |-> TRUE, legs |-> <<>>] ELSE ReadLegs(f.records)

RECURSIVE MaxSeqOfLast(_)
\* MaxSeq that keeps the sequence number of the last parseable leg.
MaxSeqOfLast(legs) ==
    IF Len(legs) = 0 THEN 0
    ELSE LET rest == MaxSeqOfLast(SubSeq(legs, 1, Len(legs) - 1))
             p    == ParseEntryID(legs[Len(legs)].EntryID)
         IN  IF p.ok THEN p.seq ELSE rest

\* MaxSeq that skips every leg, parseable or not.
MaxSeqSkipsAll(legs) == 0

RECURSIVE MaxSeq(_)
\* The largest parseable base sequence number of the legs, 0 if none.
MaxSeq(legs) ==
    IF Len(legs) = 0 THEN 0
    ELSE LET rest == MaxSeq(SubSeq(legs, 1, Len(legs) - 1))
             p    == ParseEntryID(legs[Len(legs)].EntryID)
         IN  IF p.ok /\ p.seq > rest THEN p.seq ELSE rest

\* NextEntrySeq on the result r of its ReadMonth.
SeqAfter(r) ==
    IF ~r.ok THEN [ok |-> FALSE, seq |-> 0] ELSE [ok |-> TRUE, seq |-> MaxSeq(r.legs) + 1]

NextEntrySeq(year, month) == SeqAfter(ReadMonth(year, month))

\* The two legs AddDouble synthesizes.
NewLegs(params, entryID) ==
    <<[EntryID |-> FormatLegID(entryID, 0), Date |-> params.Date,
       AccountID |-> params.DebitAccount, Debit |-> params.Amount, Credit |-> 0],
      [EntryID |-> FormatLegID(entryID, 1), Date |-> params.Date,
       AccountID |-> params.CreditAccount, Debit |-> 0, Credit |-> params.Amount]>>

RECURSIVE CountLegRows(_)
CountLegRows(ps) ==
    IF ps = {} THEN 0
    ELSE LET p == CHOOSE q \in ps : TRUE
         IN  Cardinality({i \in 1..Len(files[p].records) : files[p].records[i] # Header})
             + CountLegRows(ps \ {p})

\* A rejection that lets a single issue through.
RejectedOffByOne(verrs) == Len(verrs) > 1

\* len(verrs) > 0: any issue rejects the call.
Rejected(verrs) == Len(verrs) > 0

\* AddDouble up to its first write: sequence allocation, read, validation.
\* A failure returns here; otherwise the call goes on to MkdirAll.  The two
\* reads of the month (in NextEntrySeq and before validation) see the same
\* disk, so one result serves both.
AddDoubleBegin(params) ==
    /\ w.pc = "idle"
    /\ LET year    == params.Date.year
           month   == params.Date.month
           path    == monthPath(year, month)
           existing == ReadMonth(year, month)
           next    == SeqAfter(existing)
           entryID == FormatEntryID(year, month, next.seq)
           newLegs == NewLegs(params, entryID)
           verrs   == ValidateLegs(existing.legs \o newLegs, year, month)
           failed(err) ==
               /\ last' = [kind |-> "error", err |-> err, entryID |-> <<>>, path |-> path,
                           isNew |-> FALSE, newLegs |-> <<>>,
                           before |-> files, dirsBefore |-> dirs]
               /\ UNCHANGED <<bvars, pvars, avars, svars, dirs, files, w, okCount, crashes>>
       IN  IF ~next.ok \/ ~existing.ok THEN failed("reading journal")
           ELSE IF Rejected(verrs) THEN failed("validation failed")
           ELSE /\ CountLegRows(Paths) < 2 * MaxEntries
                /\ w' = [pc |-> "mkdir", year |-> year, month |-> month,
                         entryID |-> entryID, newLegs |-> newLegs, isNew |-> FALSE,
                         before |-> files, dirsBefore |-> dirs]
                /\ UNCHANGED <<bvars, pvars, avars, svars, dirs, files, last, okCount, crashes>>

\* os.MkdirAll(dir)
AddDoubleMkdir ==
    /\ w.pc = "mkdir"
    /\ dirs' = dirs \cup {monthDir(w.year, w.month)}
    /\ w' = [w EXCEPT !.pc = "stat"]
    /\ UNCHANGED <<bvars, pvars, avars, svars, files, last, okCount, crashes>>

\* A call that takes every file for a new one.
AddDoubleStatAlwaysNew ==
    /\ w.pc = "stat"
    /\ w' = [w EXCEPT !.pc = "open", !.isNew = TRUE]
    /\ UNCHANGED <<bvars, pvars, avars, svars, dirs, files, last, okCount, crashes>>

\* os.Stat(journalPath): isNew iff the file does not exist.
AddDoubleStat ==
    /\ w.pc = "stat"
    /\ w' = [w EXCEPT !.pc = "open",
                      !.isNew = ~files[monthPath(w.year, w.month)].exists]
    /\ UNCHANGED <<bvars, pvars, avars, svars, dirs, files, last, okCount, crashes>>

\* os.OpenFile(journalPath, O_WRONLY|O_CREATE|O_APPEND)
AddDoubleOpen ==
    /\ w.pc = "open"
    /\ files' = [files EXCEPT ![monthPath(w.year, w.month)].exists = TRUE]
    /\ w' = [w EXCEPT !.pc = IF w.isNew THEN "header" ELSE "append"]
    /\ UNCHANGED <<bvars, pvars, avars, svars, dirs, last, okCount, crashes>>

\* fmt.Fprintln(f, Header), only when the file is new.
AddDoubleHeader ==
    /\ w.pc = "header"
    /\ files' = [files EXCEPT ![monthPath(w.year, w.month)].records = Append(@, Header)]
    /\ w' = [w EXCEPT !.pc = "append"]
    /\ UNCHANGED <<bvars, pvars, avars, svars, dirs, last, okCount, crashes>>

\* AppendLegs(f, newLegs) and the return of the entry id.
AddDoubleAppend ==
    /\ w.pc = "append"
    /\ LET path == monthPath(w.year, w.month)
       IN  /\ files' = [files EXCEPT ![path].records = AppendLegs(@, w.newLegs)]
           /\ okCount' = [okCount EXCEPT ![path] = @ + 1]
           /\ last' = [kind |-> "ok", err |-> "", entryID |-> w.entryID, path |-> path,
                       isNew |-> w.isNew, newLegs |-> w.newLegs,
                       before |-> w.before, dirsBefore |-> w.dirsBefore]
    /\ w' = Idle
    /\ UNCHANGED <<bvars, pvars, avars, svars, dirs, crashes>>

\* The process is killed between two system calls of AddDouble; what was
\* written stays on disk and the call never returns.
Kill ==
    /\ w.pc \in {"stat", "open", "header", "append"}
    /\ crashes < MaxCrashes
    /\ crashes' = crashes + 1
    /\ w' = Idle
    /\ last' = [NoCall EXCEPT !.kind = "killed"]
    /\ UNCHANGED <<bvars, pvars, avars, svars, dirs, files, okCount>>

AddDouble ==
    \/ \E params \in Params : AddDoubleBegin(params)
    \/ AddDoubleMkdir
    \/ AddDoubleStat
    \/ AddDoubleOpen
    \/ AddDoubleHeader
    \/ AddDoubleAppend

----------------------------------------------------------------------------
(* internal/sandbox/bridge.go: the bridge to the sandbox child process.    *)

Callers == 1..NumCallers

\* An id as it travels in a JSON frame: an integer literal, a float literal
\* (form "frac": the number val + 0.5), a string of the digits of val, or
\* no id field at all.
WireID(form, val) == [form |-> form, val |-> val]

NoWireID == WireID("none", 0)

\* json.Unmarshal of an id into a field of type any: every JSON number
\* becomes a float64, a missing field stays nil.
DecodeID(wire) ==
    IF wire.form \in {"int", "float"} THEN [type |-> "float64", val |-> wire.val]
    ELSE IF wire.form = "frac" THEN [type |-> "float64", val |-> wire.val, half |-> TRUE]
    ELSE IF wire.form = "string" THEN [type |-> "string", val |-> wire.val]
    ELSE [type |-> "nil", val |-> 0]

\* json.Marshal of an id of type any: an int and an integral float64 print
\* as an integer literal, nil as null.
EncodeID(v) ==
    IF v.type \in {"int", "float64"} THEN WireID("int", v.val) ELSE NoWireID

\* A conversion that also reads the digits of a string.
toIntAnyType(v) == v.val

\* int(n) of a float64 drops the fraction (v.val is the integer part).
toInt(v) == IF v.type = "float64" THEN v.val ELSE IF v.type = "int" THEN v.val ELSE 0

\* The registered primitives.
Handlers == {"ping", "ctx_log"}

\* Primitive names the child calls back; "nope" is not registered.
Methods == {"ping", "nope"}

\* JSON values: null, no value at all, and the value for tag x.
Null == <<"null">>

Absent == <<>>

Value(x) == <<"value", x>>

\* A frame on a pipe.  fields is the set of JSON members present besides
\* jsonrpc; code and message are those of the error member, 0 and empty
\* without error.
Frame(method, id, fields, code, message, payload) ==
    [method |-> method, id |-> id, fields |-> fields, code |-> code, message |-> message,
     payload |-> payload]

\* json.Marshal of a Request: id is omitted when nil.
MarshalRequest(method, id, payload) ==
    Frame(method, EncodeID(id),
          {"method"} \cup (IF id.type = "nil" THEN {} ELSE {"id"})
                     \cup (IF payload = Absent THEN {} ELSE {"params"}),
          0, <<>>, payload)

\* json.Marshal of a Response whose result member is dropped when empty.
MarshalResponseOmitEmpty(resp) ==
    Frame("", EncodeID(resp.ID),
          {"id"} \cup (IF resp.Result = Null THEN {} ELSE {"result"})
                 \cup (IF resp.Code = 0 THEN {} ELSE {"error"}),
          resp.Code, resp.Message, resp.Result)

\* json.Marshal of a Response: result and id are always present, error only
\* when set.
MarshalResponse(resp) ==
    Frame("", EncodeID(resp.ID),
          {"id", "result"} \cup (IF resp.Code = 0 THEN {} ELSE {"error"}),
          resp.Code, resp.Message, resp.Result)

Free == <<"free">>

NoResp == [ID |-> [type |-> "nil", val |-> 0], Result |-> Null, Code |-> 0, Message |-> <<>>]

NoRet == [kind |-> "none", resp |-> NoResp]

BridgeInit ==
    /\ nextID = 0
    /\ pending = {}
    /\ call = [c \in Callers |->
                 [pc |-> "idle", id |-> 0, ch |-> <<>>, timer |-> "off", ret |-> NoRet,
                  late |-> FALSE]]
    /\ mu = Free
    /\ stdin = <<>>
    /\ stdout = <<>>
    /\ child = [alive |-> TRUE, code |-> 0, running |-> {}, nextCb |-> 1, strays |-> 0]
    /\ done = FALSE
    /\ cbs = <<>>
    /\ sd = [pc |-> "idle", rets |-> <<>>]
    /\ cmd = [waited |-> FALSE, stdinOpen |-> TRUE, stdoutOpen |-> TRUE, tmpDir |-> TRUE]
    /\ atExit = [sending |-> {}, waiting |-> {}, answered |-> {}]

\* What a write of one frame to the child's stdin does now.
WriteOutcome ==
    IF ~cmd.stdinOpen \/ ~child.alive THEN "error"
    ELSE IF Len(stdin) < PipeCap THEN "ok" ELSE "block"

\* Bridge.send by goroutine g: take mu, write the frame, release mu.  The
\* write may fail; a full pipe makes it wait with mu held (SendBlocks).
SendCompletes(g, frame) ==
    /\ mu \in {Free, g}
    /\ WriteOutcome # "block"
    /\ mu' = Free
    /\ stdin' = IF WriteOutcome = "ok" THEN Append(stdin, frame) ELSE stdin

SendBlocks(g) ==
    /\ mu = Free
    /\ WriteOutcome = "block"
    /\ mu' = g

\* A registration that hands out the counter before incrementing it.
RunScriptRegisterStale(c) ==
    /\ call[c].pc = "idle"
    /\ mu = Free
    /\ nextID' = nextID + 1
    /\ pending' = pending \cup {nextID}
    /\ call' = [call EXCEPT ![c].pc = "send", ![c].id = nextID,
                            ![c].late = Len(sd.rets) > 0]
    /\ UNCHANGED <<jvars, pvars, avars, svars, mu, stdin, stdout, child, done, cbs, sd, cmd, atExit>>

\* RunScript, first critical section: allocate the id and register the
\* response channel.
RunScriptRegister(c) ==
    /\ call[c].pc = "idle"
    /\ mu = Free
    /\ nextID' = nextID + 1
    /\ pending' = pending \cup {nextID + 1}
    /\ call' = [call EXCEPT ![c].pc = "send", ![c].id = nextID + 1,
                            ![c].late = Len(sd.rets) > 0]
    /\ UNCHANGED <<jvars, pvars, avars, svars, mu, stdin, stdout, child, done, cbs, sd, cmd, atExit>>

\* RunScript sends its run request; a failed send returns the error.
RunScriptSend(c) ==
    /\ call[c].pc = "send"
    /\ SendCompletes(<<"caller", c>>,
                     MarshalRequest("run", [type |-> "int", val |-> call[c].id], Value(c)))
    /\ call' = IF WriteOutcome = "ok"
               THEN [call EXCEPT ![c].pc = "select", ![c].timer = "armed"]
               ELSE [call EXCEPT ![c].pc = "done", ![c].ret = [NoRet EXCEPT !.kind = "senderr"]]
    /\ UNCHANGED <<jvars, pvars, avars, svars, nextID, pending, stdout, child, done, cbs, sd, cmd, atExit>>

RunScriptSendBlocks(c) ==
    /\ call[c].pc = "send"
    /\ SendBlocks(<<"caller", c>>)
    /\ UNCHANGED <<jvars, pvars, avars, svars, nextID, pending, call, stdin, stdout, child, done, cbs, sd, cmd, atExit>>

\* select, case resp := <-ch
RunScriptReceive(c) ==
    /\ call[c].pc = "select"
    /\ call[c].ch # <<>>
    /\ LET resp == call[c].ch[1]
       IN  call' = [call EXCEPT ![c].pc = "done", ![c].ch = <<>>, ![c].timer = "off",
                      ![c].ret = [kind |-> IF resp.Code # 0 THEN "rpcerror" ELSE "result",
                                  resp |-> resp]]
    /\ UNCHANGED <<jvars, pvars, avars, svars, nextID, pending, mu, stdin, stdout, child, done, cbs, sd, cmd, atExit>>

\* A done case that returns without an error.
RunScriptExitedAsSuccess(c) ==
    /\ call[c].pc = "select"
    /\ done
    /\ call' = [call EXCEPT ![c].pc = "done", ![c].timer = "off",
                            ![c].ret = [NoRet EXCEPT !.kind = "result"]]
    /\ UNCHANGED <<jvars, pvars, avars, svars, nextID, pending, mu, stdin, stdout, child, done, cbs, sd, cmd, atExit>>

\* select, case <-b.done
RunScriptExited(c) ==
    /\ call[c].pc = "select"
    /\ done
    /\ call' = [call EXCEPT ![c].pc = "done", ![c].timer = "off",
                            ![c].ret = [NoRet EXCEPT !.kind = "exited"]]
    /\ UNCHANGED <<jvars, pvars, avars, svars, nextID, pending, mu, stdin, stdout, child, done, cbs, sd, cmd, atExit>>

\* The 30 seconds of time.After have elapsed.
TimerExpires(c) ==
    /\ call[c].pc = "select"
    /\ call[c].timer = "armed"
    /\ call' = [call EXCEPT ![c].timer = "expired"]
    /\ UNCHANGED <<jvars, pvars, avars, svars, nextID, pending, mu, stdin, stdout, child, done, cbs, sd, cmd, atExit>>

\* A select without the time.After case.
RunScriptTimeoutNever(c) ==
    /\ call[c].pc = "select"
    /\ call[c].timer = "never"
    /\ call' = [call EXCEPT ![c].pc = "done", ![c].timer = "off",
                            ![c].ret = [NoRet EXCEPT !.kind = "timeout"]]
    /\ UNCHANGED <<jvars, pvars, avars, svars, nextID, pending, mu, stdin, stdout, child, done, cbs, sd, cmd, atExit>>

\* select, case <-time.After(30 * time.Second)
RunScriptTimeout(c) ==
    /\ call[c].pc = "select"
    /\ call[c].timer = "expired"
    /\ call' = [call EXCEPT ![c].pc = "done", ![c].timer = "off",
                            ![c].ret = [NoRet EXCEPT !.kind = "timeout"]]
    /\ UNCHANGED <<jvars, pvars, avars, svars, nextID, pending, mu, stdin, stdout, child, done, cbs, sd, cmd, atExit>>

RunScript(c) ==
    \/ RunScriptRegister(c)
    \/ RunScriptSend(c)
    \/ RunScriptSendBlocks(c)
    \/ RunScriptReceive(c)
    \/ RunScriptExited(c)
    \/ TimerExpires(c)
    \/ RunScriptTimeout(c)

\* The child takes the next frame off its stdin: it starts a script, gets
\* the answer to a callback, or exits on the shutdown notification.
ChildRead ==
    /\ child.alive
    /\ stdin # <<>>
    /\ LET f == Head(stdin)
       IN  IF f.method = "shutdown"
           THEN /\ child' = [child EXCEPT !.alive = FALSE, !.code = 0, !.running = {}]
                /\ stdin' = <<>>
           ELSE /\ child' = IF f.method = "run"
                            THEN [child EXCEPT !.running =
                                     @ \cup {[id |-> f.id.val, script |-> f.payload]}]
                            ELSE child
                /\ stdin' = Tail(stdin)
    /\ UNCHANGED <<jvars, pvars, avars, svars, nextID, pending, call, mu, stdout, done, cbs, sd, cmd, atExit>>

\* The child answers one of its running scripts, in any order, writing the
\* id as an integer or as a float, with a result or an error.
ChildRespond(r, form, code) ==
    /\ child.alive
    /\ r \in child.running
    /\ Len(stdout) < PipeCap
    /\ stdout' = Append(stdout,
                    Frame("", WireID(form, r.id),
                          {"id"} \cup (IF code = 0 THEN {"result"} ELSE {"error"}),
                          code, IF code = 0 THEN <<>> ELSE <<"script error">>, r.script))
    /\ child' = [child EXCEPT !.running = @ \ {r}]
    /\ UNCHANGED <<jvars, pvars, avars, svars, nextID, pending, call, mu, stdin, done, cbs, sd, cmd, atExit>>

\* A running script calls a primitive: the child sends a request with an id
\* of its own.
ChildCallback(method, form) ==
    /\ child.alive
    /\ child.running # {}
    /\ child.nextCb <= MaxCallbacks
    /\ Len(stdout) < PipeCap
    /\ stdout' = Append(stdout,
                    Frame(method, WireID(form, child.nextCb), {"method", "id", "params"},
                          0, <<>>, Absent))
    /\ child' = [child EXCEPT !.nextCb = @ + 1]
    /\ UNCHANGED <<jvars, pvars, avars, svars, nextID, pending, call, mu, stdin, done, cbs, sd, cmd, atExit>>

\* The child process exits on its own (crash, kill).
ChildDies ==
    /\ child.alive
    /\ child' = [child EXCEPT !.alive = FALSE, !.code = 1, !.running = {}]
    /\ stdin' = <<>>
    /\ UNCHANGED <<jvars, pvars, avars, svars, nextID, pending, call, mu, stdout, done, cbs, sd, cmd, atExit>>

Child ==
    \/ ChildRead
    \/ \E r \in child.running, form \in {"int", "float"}, code \in {0, 0 - 32603} :
          ChildRespond(r, form, code)
    \/ \E method \in Methods, form \in {"int", "float"} : ChildCallback(method, form)
    \/ ChildDies

\* A lookup that hands the response to the oldest waiting call.
LookupPendingOldest(id) ==
    [ok  |-> pending # {},
     key |-> IF pending = {} THEN 0 ELSE CHOOSE i \in pending : \A j \in pending : i <= j]

\* ch, ok := b.pending[id]
LookupPending(id) == [ok |-> id \in pending, key |-> id]

\* The channel registered under an id is the one of the call holding it.
ChanOf(id) == CHOOSE c \in Callers : call[c].id = id

\* An unbuffered response channel: a send finds no room.
ChanUnbuffered(ch) == FALSE

\* ch := make(chan *Response, 1): a send finds room in an empty buffer.
ChanHasRoom(ch) == Len(ch) < 1

IsResponse(msg) == msg.method = "" /\ msg.fields \cap {"result", "error"} # {}

\* readLoop reads a response frame: the call registered under its id gets
\* it and leaves the in-flight table; without such a call it is dropped.
\* The send on the call's channel waits for room in its buffer or for the
\* call to be receiving.
ReadLoopResponse ==
    /\ ~done
    /\ cmd.stdoutOpen
    /\ stdout # <<>>
    /\ IsResponse(Head(stdout))
    /\ mu = Free
    /\ LET msg  == Head(stdout)
           mid  == DecodeID(msg.id)
           look == LookupPending(toInt(mid))
           resp == [ID |-> mid,
                    Result |-> IF "result" \in msg.fields THEN msg.payload ELSE Null,
                    Code |-> msg.code, Message |-> msg.message]
       IN  IF look.ok
           THEN /\ \/ ChanHasRoom(call[ChanOf(look.key)].ch)
                   \/ (call[ChanOf(look.key)].pc = "select" /\ call[ChanOf(look.key)].ch = <<>>)
                /\ pending' = pending \ {look.key}
                /\ call' = [call EXCEPT ![ChanOf(look.key)].ch = Append(@, resp)]
           ELSE UNCHANGED <<pending, call>>
    /\ stdout' = Tail(stdout)
    /\ UNCHANGED <<jvars, pvars, avars, svars, nextID, mu, stdin, child, done, cbs, sd, cmd, atExit>>

\* readLoop reads a request frame and spawns handleCallback for it.
ReadLoopRequest ==
    /\ ~done
    /\ cmd.stdoutOpen
    /\ stdout # <<>>
    /\ Head(stdout).method # ""
    /\ cbs' = Append(cbs, [ID |-> DecodeID(Head(stdout).id), method |-> Head(stdout).method,
                           pc |-> "run", invoked |-> FALSE, herr |-> <<>>,
                           reply |-> NoResp, sent |-> <<>>])
    /\ stdout' = Tail(stdout)
    /\ UNCHANGED <<jvars, pvars, avars, svars, nextID, pending, call, mu, stdin, child, done, sd, cmd, atExit>>

\* A readLoop that takes a pipe without data for a pipe at end of file.
ReadLoopExitOnEmpty ==
    /\ ~done
    /\ stdout = <<>> \/ ~cmd.stdoutOpen
    /\ done' = TRUE
    /\ atExit' = [sending  |-> {c \in Callers : call[c].pc = "send"},
                   waiting  |-> {c \in Callers : call[c].pc = "select" /\ call[c].ch = <<>>},
                   answered |-> {c \in Callers : call[c].pc = "select" /\ call[c].ch # <<>>}]
    /\ UNCHANGED <<jvars, pvars, avars, svars, nextID, pending, call, mu, stdin, stdout, child, cbs, sd, cmd>>

\* The read fails (end of file after the child's exit, or the pipe closed
\* by cmd.Wait): readLoop returns and its deferred close(b.done) runs.
ReadLoopExit ==
    /\ ~done
    /\ (stdout = <<>> /\ ~child.alive) \/ ~cmd.stdoutOpen
    /\ done' = TRUE
    /\ atExit' = [sending  |-> {c \in Callers : call[c].pc = "send"},
                   waiting  |-> {c \in Callers : call[c].pc = "select" /\ call[c].ch = <<>>},
                   answered |-> {c \in Callers : call[c].pc = "select" /\ call[c].ch # <<>>}]
    /\ UNCHANGED <<jvars, pvars, avars, svars, nextID, pending, call, mu, stdin, stdout, child, cbs, sd, cmd>>

\* A readLoop that runs each handler itself: it reads the next frame only
\* when no callback is in progress.
readLoopInline ==
    \/ (\A i \in DOMAIN cbs : cbs[i].pc = "done") /\ (ReadLoopResponse \/ ReadLoopRequest)
    \/ ReadLoopExit

readLoop ==
    \/ ReadLoopResponse
    \/ ReadLoopRequest
    \/ ReadLoopExit

\* What a handler may return: ctxLog always returns true without error.
Outcomes(method) ==
    IF method = "ctx_log" THEN {"value"} ELSE {"value", "nil", "error"}

\* The entry ctxLog appends for the callback with the given id.
LogEntry(id) == [Action |-> "log", Details |-> id]

\* The error a failing handler of the primitive returns.
HandlerError(method) == <<"failed: ", method>>

\* A response that reports a failing handler as an unknown primitive.
CallbackReplyOneCode(id, method, outcome) ==
    IF method \notin Handlers \/ outcome = "error"
    THEN [ID |-> id, Result |-> Null, Code |-> 0 - 32601,
          Message |-> <<"unknown primitive: ", method>>]
    ELSE [ID |-> id, Result |-> IF outcome = "value" THEN Value(method) ELSE Null,
          Code |-> 0, Message |-> <<>>]

\* The Response handleCallback builds: error -32601 for a primitive without
\* handler, error -32000 with the handler's message when the handler
\* returned an error, the handler's result otherwise.
CallbackReply(id, method, outcome) ==
    IF method \notin Handlers
    THEN [ID |-> id, Result |-> Null, Code |-> 0 - 32601,
          Message |-> <<"unknown primitive: ", method>>]
    ELSE IF outcome = "error"
    THEN [ID |-> id, Result |-> Null, Code |-> 0 - 32000, Message |-> HandlerError(method)]
    ELSE [ID |-> id, Result |-> IF outcome = "value" THEN Value(method) ELSE Null,
          Code |-> 0, Message |-> <<>>]

\* handleCallback up to its send: without a handler for the primitive no
\* handler runs; otherwise the handler runs (invoked) and returns a value,
\* nil, or an error (herr).  The handler of ctx_log appends an entry to the
\* agent log.
HandleCallback(i, outcome) ==
    /\ i \in DOMAIN cbs
    /\ cbs[i].pc = "run"
    /\ IF cbs[i].method \notin Handlers
       THEN outcome = "unknown"
       ELSE outcome \in Outcomes(cbs[i].method)
    /\ cbs' = [cbs EXCEPT ![i].pc = "reply",
                          ![i].invoked = cbs[i].method \in Handlers,
                          ![i].herr = IF outcome = "error" THEN HandlerError(cbs[i].method)
                                      ELSE <<>>,
                          ![i].reply = CallbackReply(cbs[i].ID, cbs[i].method, outcome)]
    /\ agentLog' = IF cbs[i].method = "ctx_log"
                   THEN Append(agentLog, LogEntry(cbs[i].ID))
                   ELSE agentLog
    /\ UNCHANGED <<jvars, pvars, svars, audit, drv, nextID, pending, call, mu, stdin, stdout, child,
                   done, sd, cmd, atExit>>

\* handleCallback sends its response; the error of the send is dropped.
CallbackSend(i) ==
    /\ i \in DOMAIN cbs
    /\ cbs[i].pc = "reply"
    /\ SendCompletes(<<"callback", i>>, MarshalResponse(cbs[i].reply))
    /\ cbs' = [cbs EXCEPT ![i].pc = "done",
                          ![i].sent = Append(@, MarshalResponse(cbs[i].reply))]
    /\ UNCHANGED <<jvars, pvars, avars, svars, nextID, pending, call, stdout, child, done, sd, cmd, atExit>>

CallbackSendBlocks(i) ==
    /\ i \in DOMAIN cbs
    /\ cbs[i].pc = "reply"
    /\ SendBlocks(<<"callback", i>>)
    /\ UNCHANGED <<jvars, pvars, avars, svars, nextID, pending, call, stdin, stdout, child, done, cbs, sd, cmd, atExit>>

handleCallback(i) ==
    \/ \E outcome \in {"unknown", "value", "nil", "error"} : HandleCallback(i, outcome)
    \/ CallbackSend(i)
    \/ CallbackSendBlocks(i)

\* A goroutine calls Shutdown.
ShutdownCall ==
    /\ sd.pc = "idle"
    /\ Len(sd.rets) < MaxShutdowns
    /\ sd' = [sd EXCEPT !.pc = "send"]
    /\ UNCHANGED <<jvars, pvars, avars, svars, nextID, pending, call, mu, stdin, stdout, child, done, cbs, cmd, atExit>>

\* Shutdown sends the shutdown notification and ignores the send's error.
ShutdownSend ==
    /\ sd.pc = "send"
    /\ SendCompletes(<<"shutdown">>,
                     MarshalRequest("shutdown", [type |-> "nil", val |-> 0], Absent))
    /\ sd' = [sd EXCEPT !.pc = "wait"]
    /\ UNCHANGED <<jvars, pvars, avars, svars, nextID, pending, call, stdout, child, done, cbs, cmd, atExit>>

ShutdownSendBlocks ==
    /\ sd.pc = "send"
    /\ SendBlocks(<<"shutdown">>)
    /\ UNCHANGED <<jvars, pvars, avars, svars, nextID, pending, call, stdin, stdout, child, done, cbs, sd, cmd, atExit>>

\* cmd.Wait on a command that was already waited for fails at once.
\* Otherwise it returns when the child has exited: nil for exit status 0,
\* an exit error otherwise, and the host ends of the pipes are closed.
CmdWait ==
    IF cmd.waited THEN [ready |-> TRUE, err |-> "exec: Wait was already called"]
    ELSE [ready |-> ~child.alive,
          err |-> IF child.code = 0 THEN "nil" ELSE "exit status"]

\* Shutdown waits for the child, removes the temp dir and returns Wait's
\* error.
ShutdownWait ==
    /\ sd.pc = "wait"
    /\ CmdWait.ready
    /\ cmd' = [waited |-> TRUE, stdinOpen |-> FALSE, stdoutOpen |-> FALSE, tmpDir |-> FALSE]
    /\ sd' = [pc |-> "idle", rets |-> Append(sd.rets, CmdWait.err)]
    /\ UNCHANGED <<jvars, pvars, avars, svars, nextID, pending, call, mu, stdin, stdout, child, done, cbs, atExit>>

Shutdown ==
    \/ ShutdownCall
    \/ ShutdownSend
    \/ ShutdownSendBlocks
    \/ ShutdownWait

----------------------------------------------------------------------------
(* The driver of an agent run (internal/commands/agent.go, runAgent).      *)

\* runAgent up to its RunScript call: the script is read, the bridge is
\* started, the runtime is created and its primitives are registered.  A
\* script that cannot be read makes the driver return before that.
RunAgentBegin(found) ==
    /\ drv.pc = "idle"
    /\ drv' = IF found THEN [drv EXCEPT !.pc = "run"]
              ELSE [drv EXCEPT !.pc = "returned", !.err = "reading agent"]
    /\ UNCHANGED <<jvars, bvars, pvars, svars, agentLog, audit>>

\* The driver calls bridge.RunScript.
RunAgentRunScript ==
    /\ drv.pc = "run"
    /\ RunScriptRegister(1)

\* RunScript has returned an error: the driver returns the error.
RunAgentFailed ==
    /\ drv.pc = "run"
    /\ call[1].pc = "done"
    /\ call[1].ret.kind # "result"
    /\ drv' = [pc |-> "shutdown", err |-> "agent failed", collected |-> agentLog]
    /\ UNCHANGED <<jvars, bvars, pvars, svars, agentLog, audit>>

\* agentlog.Append: the entries are appended to the audit file.
AgentlogAppend(rows, entries) == rows \o entries

\* RunScript has returned a result: the driver prints it, appends the
\* collected entries, if any, to the audit file and returns nil.
RunAgentSucceeded ==
    /\ drv.pc = "run"
    /\ call[1].pc = "done"
    /\ call[1].ret.kind = "result"
    /\ audit' = IF Len(agentLog) > 0 THEN AgentlogAppend(audit, agentLog) ELSE audit
    /\ drv' = [pc |-> "shutdown", err |-> "nil", collected |-> agentLog]
    /\ UNCHANGED <<jvars, bvars, pvars, svars, agentLog>>

\* The deferred bridge.Shutdown starts.
RunAgentShutdown ==
    /\ drv.pc = "shutdown"
    /\ sd.rets = <<>>
    /\ ShutdownCall

\* The deferred Shutdown has returned, and so does runAgent.
RunAgentReturn ==
    /\ drv.pc = "shutdown"
    /\ sd.rets # <<>>
    /\ drv' = [drv EXCEPT !.pc = "returned"]
    /\ UNCHANGED <<jvars, bvars, pvars, svars, agentLog, audit>>

----------------------------------------------------------------------------
(* Single operations of the journal package on given inputs.               *)

\* The month file of a given shape: missing, empty, or the header followed
\* by the rows of the given legs.
FileOf(shape, legs) ==
    IF shape = "missing" THEN NoFile
    ELSE IF shape = "empty" THEN [exists |-> TRUE, records |-> <<>>]
    ELSE [exists |-> TRUE, records |-> AppendLegs(<<Header>>, legs)]

InMonth == [year |-> 2025, month |-> 1, day |-> 15]

OutOfMonth == [year |-> 2025, month |-> 2, day |-> 3]

PoolLeg(seq, k, date, account, debit, credit) ==
    [EntryID |-> FormatLegID(FormatEntryID(2025, 1, seq), k), Date |-> date,
     AccountID |-> account, Debit |-> debit, Credit |-> credit]

\* The legs that sets of legs are made of: the two legs of a valid entry, a
\* credit leg of half its amount, and legs with an unknown account, a date outside the month, a third
\* decimal place, both sides set, no side set, and an entry id that does
\* not parse.
LegPool ==
    {PoolLeg(1, 0, InMonth, 5020, 2500, 0),
     PoolLeg(1, 1, InMonth, 1010, 0, 2500),
     PoolLeg(1, 1, InMonth, 1010, 0, 1250),
     PoolLeg(2, 0, InMonth, 5020, 2500, 0),
     PoolLeg(2, 1, InMonth, 9999, 0, 2500),
     PoolLeg(3, 0, OutOfMonth, 5020, 2500, 0),
     PoolLeg(3, 1, InMonth, 1010, 0, 1005),
     PoolLeg(2, 1, InMonth, 1010, 2500, 2500),
     PoolLeg(2, 0, InMonth, 5020, 0, 0),
     [PoolLeg(1, 0, InMonth, 5020, 2500, 0) EXCEPT !.EntryID = <<"x">>]}

LegSeqs == UNION {[1..n -> LegPool] : n \in 0..MaxLegs}

ValidateInit ==
    /\ arg \in [fn : {"ValidateLegs"}, legs : LegSeqs, year : {InMonth.year},
                 month : {InMonth.month}]
    /\ res = NoRes

\* An error that carries the first issue only.
ValidationFailedFirstOnly(verrs) ==
    [kind |-> "validation failed", msgs |-> <<verrs[1]>>]

\* AddDouble's error for a non-empty list of issues: the messages of all
\* issues, joined.
ValidationFailed(verrs) ==
    [kind |-> "validation failed", msgs |-> verrs]

\* AddDouble's validation step on a given set of legs: ValidateLegs, and
\* the aggregated error when it returns issues.
ValidateAll ==
    /\ arg.fn = "ValidateLegs"
    /\ ~res.done
    /\ LET verrs == ValidateLegs(arg.legs, arg.year, arg.month)
       IN  res' = [done |-> TRUE, verrs |-> verrs,
                   err |-> IF Rejected(verrs) THEN ValidationFailed(verrs)
                           ELSE [kind |-> "nil", msgs |-> <<>>]]
    /\ UNCHANGED <<jvars, bvars, avars, svars, arg>>

\* The legs of an entry that an earlier run has left in January.
SeedLegs ==
    NewLegs([Date |-> InMonth, DebitAccount |-> 5020, CreditAccount |-> 1010, Amount |-> 2500],
            FormatEntryID(InMonth.year, InMonth.month, 1))

SeedPath == monthPath(InMonth.year, InMonth.month)

\* The month files at the start: none, or January holding one entry.
SeedFiles(seeded) ==
    [p \in Paths |-> IF seeded /\ p = SeedPath THEN FileOf("rows", SeedLegs) ELSE NoFile]

SeedDirs(seeded) == IF seeded THEN {monthDir(InMonth.year, InMonth.month)} ELSE {}

\* AddDouble is about to be called with given parameters, on an empty
\* ledger or on one that holds an entry.
AddInit ==
    /\ arg \in [fn : {"AddDouble"}, params : Params, seeded : BOOLEAN]
    /\ res = NoRes
    /\ dirs = SeedDirs(arg.seeded)
    /\ files = SeedFiles(arg.seeded)
    /\ w = Idle
    /\ last = NoCall
    /\ okCount = [p \in Paths |-> IF arg.seeded /\ p = SeedPath THEN 1 ELSE 0]
    /\ crashes = 0

\* A call of AddDouble with the given parameters.
AddDoubleGiven ==
    /\ arg.fn = "AddDouble"
    /\ AddDoubleBegin(arg.params)

\* NextEntrySeq is about to be called on a month file of a given shape.
SeqInit ==
    /\ arg \in [fn : {"NextEntrySeq"}, shape : {"missing", "empty", "rows"},
                 legs : LegSeqs, year : {InMonth.year}, month : {InMonth.month}]
    /\ arg.shape # "rows" => arg.legs = <<>>
    /\ res = NoRes
    /\ dirs = IF arg.shape = "missing" THEN {} ELSE {monthDir(arg.year, arg.month)}
    /\ files = [p \in Paths |->
                  IF p = monthPath(arg.year, arg.month) THEN FileOf(arg.shape, arg.legs)
                  ELSE NoFile]
    /\ w = Idle
    /\ last = NoCall
    /\ okCount = [p \in Paths |-> 0]
    /\ crashes = 0

\* A call of NextEntrySeq: it reads the month and opens nothing for writing.
NextEntrySeqCall ==
    /\ arg.fn = "NextEntrySeq"
    /\ ~res.done
    /\ res' = [done |-> TRUE, ok |-> NextEntrySeq(arg.year, arg.month).ok,
                seq |-> NextEntrySeq(arg.year, arg.month).seq]
    /\ UNCHANGED <<jvars, bvars, avars, svars, arg>>

\* A call of ReadMonth while no AddDouble is running: the file is opened
\* for reading only.  The result is kept with the number of AddDouble calls
\* of the month that had succeeded before the call (after).
ReadMonthCall(d) ==
    /\ w.pc = "idle"
    /\ arg' = [fn |-> "ReadMonth", year |-> d.year, month |-> d.month]
    /\ res' = [done |-> TRUE, ok |-> ReadMonth(d.year, d.month).ok,
                legs |-> ReadMonth(d.year, d.month).legs,
                after |-> okCount[monthPath(d.year, d.month)]]
    /\ UNCHANGED <<jvars, bvars, avars, svars>>

----------------------------------------------------------------------------
(* internal/sandbox/primitives.go: the journal and context primitives.     *)

\* JSON values of keyword arguments as json.Unmarshal delivers them: a
\* string, a number (float64), or nil for null and for a missing key.  The number of an amount or a confidence is held in thousandths,
\* the number of an account as it is; val is the number and str the text.
JStr(s) == [type |-> "string", val |-> 0, str |-> s]

JNum(n) == [type |-> "float64", val |-> n, str |-> <<>>]

JNil == [type |-> "nil", val |-> 0, str |-> <<>>]

\* parseDate: a string in the layout 2006-01-02.
parseDate(v) ==
    IF v.type # "string"
    THEN [ok |-> FALSE, val |-> [year |-> 0, month |-> 0, day |-> 0]]
    ELSE ParseDate(v.str)

\* parseDecimal: a float64, a decimal string, or nil for zero.
parseDecimal(v) ==
    IF v.type = "float64" THEN [ok |-> TRUE, val |-> v.val]
    ELSE IF v.type = "string" THEN NewFromString(v.str)
    ELSE IF v.type = "nil" THEN [ok |-> TRUE, val |-> 0]
    ELSE [ok |-> FALSE, val |-> 0]

\* intArg: toInt of the argument.
intArg(v) == toInt(v)

\* status, _ := kwargs["status"].(string), with the default for "".
statusArg(v) ==
    IF v.type = "string" /\ v.str # <<>> THEN v.str ELSE <<"pending_review">>

\* journalAddDouble up to its call of AddDouble: the error it returns, or
\* the AddDoubleParams it builds.  The error of parseDecimal for the
\* confidence is dropped.
CoerceArgs(kwargs) ==
    LET date       == parseDate(kwargs.date)
        amount     == parseDecimal(kwargs.amount)
        confidence == parseDecimal(kwargs.confidence)
    IN  [err |-> IF ~date.ok THEN "invalid date"
                 ELSE IF ~amount.ok THEN "invalid amount" ELSE "nil",
         params |-> [Date |-> date.val,
                     DebitAccount |-> intArg(kwargs.debit_account),
                     CreditAccount |-> intArg(kwargs.credit_account),
                     Amount |-> amount.val,
                     Confidence |-> confidence.val,
                     Status |-> statusArg(kwargs.status)]]

\* Keyword arguments a script passes to journal_add_double.
KwargsSet ==
    [date : {JStr(FormatDate(InMonth)), JStr(<<"t", "o", "d", "a", "y">>), JNum(20250115)},
     amount : {JNum(2500), JStr(StringFixed2(2500)), JStr(<<"a", "b", "c">>)},
     confidence : {JNum(800), JNil, JStr(<<"h", "i", "g", "h">>)},
     debit_account : {JNum(5020), JStr(Itoa(5020))},
     credit_account : {JNum(1010)},
     status : {JStr(<<"auto_confirmed">>), JNum(1)}]

\* A runtime constructed with a dry-run flag, a ledger that is empty or
\* holds an entry, and a script about to call journal_add_double.
PrimInit ==
    /\ arg \in [fn : {"journal_add_double"}, kwargs : KwargsSet, seeded : BOOLEAN,
                 dryRun : BOOLEAN]
    /\ res = [done |-> FALSE, err |-> "", entryID |-> <<>>, dry |-> "unasked"]
    /\ dirs = SeedDirs(arg.seeded)
    /\ files = SeedFiles(arg.seeded)
    /\ w = Idle
    /\ last = NoCall
    /\ okCount = [p \in Paths |-> IF arg.seeded /\ p = SeedPath THEN 1 ELSE 0]
    /\ crashes = 0

\* journalAddDouble returns the error of parseDate or of parseDecimal.
JournalAddDoubleRejects ==
    /\ arg.fn = "journal_add_double"
    /\ ~res.done /\ w.pc = "idle" /\ last.kind = "none"
    /\ CoerceArgs(arg.kwargs).err # "nil"
    /\ res' = [res EXCEPT !.done = TRUE, !.err = CoerceArgs(arg.kwargs).err]
    /\ UNCHANGED <<jvars, bvars, avars, svars, arg>>

\* A journalAddDouble that does nothing on a dry run.
JournalAddDoubleGated ==
    /\ arg.fn = "journal_add_double"
    /\ ~res.done /\ w.pc = "idle" /\ last.kind = "none"
    /\ CoerceArgs(arg.kwargs).err = "nil"
    /\ IF arg.dryRun
       THEN /\ res' = [res EXCEPT !.done = TRUE, !.err = "nil"]
            /\ UNCHANGED <<jvars, bvars, avars, svars, arg>>
       ELSE AddDoubleBegin(CoerceArgs(arg.kwargs).params)

\* journalAddDouble calls AddDouble with the parameters it built; the
\* dry-run flag is not consulted.
JournalAddDoubleCalls ==
    /\ arg.fn = "journal_add_double"
    /\ ~res.done /\ w.pc = "idle" /\ last.kind = "none"
    /\ CoerceArgs(arg.kwargs).err = "nil"
    /\ AddDoubleBegin(CoerceArgs(arg.kwargs).params)

\* AddDouble has returned: journalAddDouble returns its error or the entry
\* id.
JournalAddDoubleReturns ==
    /\ arg.fn = "journal_add_double"
    /\ ~res.done /\ w.pc = "idle" /\ last.kind \in {"ok", "error"}
    /\ res' = [res EXCEPT !.done = TRUE,
                          !.err = IF last.kind = "ok" THEN "nil" ELSE last.err,
                          !.entryID = last.entryID]
    /\ UNCHANGED <<jvars, bvars, avars, svars, arg>>

\* ctxDryRun returns the flag of the runtime.
CtxDryRun ==
    /\ arg.fn = "journal_add_double"
    /\ res.dry = "unasked"
    /\ res' = [res EXCEPT !.dry = IF arg.dryRun THEN "true" ELSE "false"]
    /\ UNCHANGED <<jvars, bvars, avars, svars, arg>>

\* One journal_add_double callback, step by step, and ctx_dry_run at any
\* moment.
InitPrimitive == PrimInit /\ BridgeInit /\ AgentInit /\ StoreInit

NextPrimitive ==
    \/ JournalAddDoubleRejects
    \/ JournalAddDoubleCalls
    \/ AddDoubleMkdir
    \/ AddDoubleStat
    \/ AddDoubleOpen
    \/ AddDoubleHeader
    \/ AddDoubleAppend
    \/ JournalAddDoubleReturns
    \/ CtxDryRun

SpecPrimitive == InitPrimitive /\ [][NextPrimitive]_vars

----------------------------------------------------------------------------
(* internal/gitops: the versioned store.                                   *)

\* The files of the repository that change during a run.
GitPaths == {"journal", "audit"}

\* The messages a script passes to git_commit; gitCommit turns an argument
\* that is not a string into "".
Messages == {"", "import: bank"}

Authors == {"agent <agent@example.com>"}

\* A store whose committer identity is configured or not (Init runs git
\* init and configures nothing), with no commit yet.
GitStart ==
    /\ git \in [identity : BOOLEAN, work : {{}}, index : {{}}, log : {<<>>}, pc : {"idle"},
                 message : {""}, author : {""},
                 before : {[index |-> {}, log |-> <<>>]}, ret : {NoCommit}]
    /\ InboxInit

\* A write of the run changes a file of the working tree.
WorkChange(p) ==
    /\ p \notin git.work
    /\ git' = [git EXCEPT !.work = @ \cup {p}]
    /\ UNCHANGED <<jvars, bvars, pvars, avars, inbox>>

\* gitCommit calls CommitAll with the message and the configured author.
CommitAllBegin(message, author) ==
    /\ git.pc = "idle"
    /\ Len(git.log) < MaxCommits
    /\ git' = [git EXCEPT !.pc = "add", !.message = message, !.author = author,
                          !.before = [index |-> git.index, log |-> git.log],
                          !.ret = NoCommit]
    /\ UNCHANGED <<jvars, bvars, pvars, avars, inbox>>

\* git add -A: every change of the working tree is staged.
CommitAllAdd ==
    /\ git.pc = "add"
    /\ git' = [git EXCEPT !.pc = "commit", !.index = @ \cup git.work, !.work = {}]
    /\ UNCHANGED <<jvars, bvars, pvars, avars, inbox>>

\* git commit -m message --author author: refused for an empty message,
\* for an index without changes and without a committer identity;
\* CommitAll returns the error, and what git add staged stays staged.
CommitAllCommit ==
    /\ git.pc = "commit"
    /\ IF git.message = "" \/ git.index = {} \/ ~git.identity
       THEN git' = [git EXCEPT !.pc = "idle",
                               !.ret = [kind |-> "error", step |-> "git commit", hash |-> 0]]
       ELSE git' = [git EXCEPT !.pc = "rev", !.index = {},
                               !.log = Append(@, [author |-> git.author,
                                                  message |-> git.message,
                                                  paths |-> git.index,
                                                  hash |-> Len(git.log) + 1])]
    /\ UNCHANGED <<jvars, bvars, pvars, avars, inbox>>

\* git rev-parse --short HEAD: the hash of the last commit.
CommitAllRevParse ==
    /\ git.pc = "rev"
    /\ git' = [git EXCEPT !.pc = "idle",
                          !.ret = [kind |-> "ok", step |-> "",
                                   hash |-> git.log[Len(git.log)].hash]]
    /\ UNCHANGED <<jvars, bvars, pvars, avars, inbox>>

CommitAll ==
    \/ \E message \in Messages, author \in Authors : CommitAllBegin(message, author)
    \/ CommitAllAdd
    \/ CommitAllCommit
    \/ CommitAllRevParse

\* Writes of the run and calls of git_commit, in any order.
InitGit == JournalInit /\ BridgeInit /\ PureInit /\ AgentInit /\ GitStart

NextGit ==
    \/ \E p \in GitPaths : WorkChange(p)
    \/ CommitAll

SpecGit == InitGit /\ [][NextGit]_vars

----------------------------------------------------------------------------
(* internal/importer: the import directory.                                *)

\* strings.ToLower
ToLower(s) ==
    [i \in 1..Len(s) |->
        IF \E k \in 1..Len(UpperChars) : UpperChars[k] = s[i]
        THEN LowerSeq[CHOOSE k \in 1..Len(UpperChars) : UpperChars[k] = s[i]]
        ELSE s[i]]

\* strings.HasSuffix
HasSuffix(s, suffix) ==
    /\ Len(s) >= Len(suffix)
    /\ SubSeq(s, Len(s) - Len(suffix) + 1, Len(s)) = suffix

\* The names of the files a user drops into import/.
FileNames ==
    {<<"a", ".", "c", "s", "v">>, <<"B", ".", "C", "S", "V">>, <<"n", ".", "t", "x", "t">>}

\* The names a script passes to importer_mark_processed; importerMarkProcessed
\* turns an argument that is not a string into the empty name.
MarkNames == FileNames \cup {<<>>}

\* A user drops a new file into import/.
Drop(name) ==
    /\ name \notin inbox.arrived
    /\ inbox' = [inbox EXCEPT !.import = @ \cup {name}, !.arrived = @ \cup {name}]
    /\ UNCHANGED <<jvars, bvars, pvars, avars, git>>

\* A Scan that also descends into import/processed/.
ScanRecursive ==
    /\ inbox' = [inbox EXCEPT
                    !.scans = 1 - @,
                    !.listed = {n \in inbox.import \cup inbox.processed :
                                  HasSuffix(ToLower(n), <<".", "c", "s", "v">>)}]
    /\ UNCHANGED <<jvars, bvars, pvars, avars, git>>

\* importerScan, Scan: the entries of import/ that are not directories and
\* whose lower-cased name ends in .csv; the directory processed is an entry
\* of import/ and is skipped.
Scan ==
    /\ inbox' = [inbox EXCEPT
                    !.scans = 1 - @,
                    !.listed = {n \in inbox.import :
                                  HasSuffix(ToLower(n), <<".", "c", "s", "v">>)}]
    /\ UNCHANGED <<jvars, bvars, pvars, avars, git>>

\* importerMarkProcessed calls MarkProcessed with the file name.
MarkProcessedBegin(name) ==
    /\ inbox.pc = "idle"
    /\ inbox' = [inbox EXCEPT !.pc = "mkdir", !.f = name, !.had = name \in inbox.import,
                              !.err = ""]
    /\ UNCHANGED <<jvars, bvars, pvars, avars, git>>

\* os.MkdirAll(import/processed)
MarkProcessedMkdir ==
    /\ inbox.pc = "mkdir"
    /\ inbox' = [inbox EXCEPT !.pc = "rename", !.dir = TRUE]
    /\ UNCHANGED <<jvars, bvars, pvars, avars, git>>

\* os.Rename(import/f, import/processed/f): one atomic step that moves the
\* file, or fails and changes nothing; it fails when there is no such file
\* (the empty name is import/ itself, which cannot move below itself) and
\* when the file system refuses.
MarkProcessedRename(refused) ==
    /\ inbox.pc = "rename"
    /\ IF inbox.f \in inbox.import /\ ~refused
       THEN inbox' = [inbox EXCEPT !.pc = "idle", !.err = "nil",
                                   !.import = @ \ {inbox.f},
                                   !.processed = @ \cup {inbox.f},
                                   !.moved = @ \cup {inbox.f}]
       ELSE inbox' = [inbox EXCEPT !.pc = "idle", !.err = "moving to processed"]
    /\ UNCHANGED <<jvars, bvars, pvars, avars, git>>

MarkProcessed ==
    \/ \E name \in MarkNames : MarkProcessedBegin(name)
    \/ MarkProcessedMkdir
    \/ \E refused \in BOOLEAN : MarkProcessedRename(refused)

\* Files arrive, scripts scan and mark, in any order.
InitImport == JournalInit /\ BridgeInit /\ PureInit /\ AgentInit /\ StoreInit

NextImport ==
    \/ \E name \in FileNames : Drop(name)
    \/ Scan
    \/ MarkProcessed

SpecImport == InitImport /\ [][NextImport]_vars

----------------------------------------------------------------------------
(* The ledger codec on given legs.                                         *)

\* Amounts in thousandths: zero, 0.001, 0.30, 1.005, 2.50, 33.33, -0.50.
DecValues == {0, 1, 300, 1005, 2500, 33330, -500}

CodecLeg(debit, credit) ==
    [EntryID |-> FormatLegID(FormatEntryID(InMonth.year, InMonth.month, 1), 0),
     Date |-> InMonth, AccountID |-> 5020, Debit |-> debit, Credit |-> credit]

\* The legs given to MarshalLeg, and the shorter list WriteLegs draws from.
CodecLegs == {CodecLeg(d, c) : d \in DecValues, c \in DecValues}

WrittenLegs ==
    {CodecLeg(0, 0), CodecLeg(300, 0), CodecLeg(0, 33330), CodecLeg(1005, 0),
     CodecLeg(2500, -500)}

\* MarshalLeg is about to be called on a leg, or WriteLegs on a list.
CodecInit ==
    /\ arg \in [fn : {"MarshalLeg"}, legs : {<<l>> : l \in CodecLegs}]
              \cup [fn : {"WriteLegs"},
                    legs : UNION {[1..n -> WrittenLegs] : n \in 0..MaxLegs}]
    /\ res = [pc |-> "start", records |-> <<>>, ok |-> FALSE, legs |-> <<>>]

MarshalLegCall ==
    /\ arg.fn = "MarshalLeg" /\ res.pc = "start"
    /\ res' = [res EXCEPT !.pc = "written", !.records = <<MarshalLeg(arg.legs[1])>>]
    /\ UNCHANGED <<jvars, bvars, avars, svars, arg>>

UnmarshalLegCall ==
    /\ arg.fn = "MarshalLeg" /\ res.pc = "written"
    /\ res' = [res EXCEPT !.pc = "read", !.ok = UnmarshalLeg(res.records[1]).ok,
                          !.legs = <<UnmarshalLeg(res.records[1]).leg>>]
    /\ UNCHANGED <<jvars, bvars, avars, svars, arg>>

WriteLegsCall ==
    /\ arg.fn = "WriteLegs" /\ res.pc = "start"
    /\ res' = [res EXCEPT !.pc = "written", !.records = WriteLegs(arg.legs)]
    /\ UNCHANGED <<jvars, bvars, avars, svars, arg>>

ReadLegsCall ==
    /\ arg.fn = "WriteLegs" /\ res.pc = "written"
    /\ res' = [res EXCEPT !.pc = "read", !.ok = ReadLegs(res.records).ok,
                          !.legs = ReadLegs(res.records).legs]
    /\ UNCHANGED <<jvars, bvars, avars, svars, arg>>

InitCodec == JournalInit /\ BridgeInit /\ AgentInit /\ StoreInit /\ CodecInit

NextCodec ==
    \/ MarshalLegCall
    \/ UnmarshalLegCall
    \/ WriteLegsCall
    \/ ReadLegsCall

SpecCodec == InitCodec /\ [][NextCodec]_vars

----------------------------------------------------------------------------
(* internal/id on given inputs.                                            *)

\* An entry id is about to be formatted, extended to a leg id and reduced
\* to its group again.
IDInit ==
    /\ arg \in [fn : {"FormatLegID"}, year : {987, 2025}, month : {1, 12},
                 seq : {1, 42, 999, 1000}, leg : 0..MaxLegIndex]
    /\ res = [pc |-> "start", entryID |-> <<>>, legID |-> <<>>, group |-> <<>>]

FormatEntryIDCall ==
    /\ arg.fn = "FormatLegID" /\ res.pc = "start"
    /\ res' = [res EXCEPT !.pc = "entry",
                          !.entryID = FormatEntryID(arg.year, arg.month, arg.seq)]
    /\ UNCHANGED <<jvars, bvars, avars, svars, arg>>

FormatLegIDCall ==
    /\ arg.fn = "FormatLegID" /\ res.pc = "entry"
    /\ res' = [res EXCEPT !.pc = "leg", !.legID = FormatLegID(res.entryID, arg.leg)]
    /\ UNCHANGED <<jvars, bvars, avars, svars, arg>>

EntryGroupCall ==
    /\ arg.fn = "FormatLegID" /\ res.pc = "leg"
    /\ res' = [res EXCEPT !.pc = "group", !.group = EntryGroup(res.legID)]
    /\ UNCHANGED <<jvars, bvars, avars, svars, arg>>

InitIdent == JournalInit /\ BridgeInit /\ AgentInit /\ StoreInit /\ IDInit

NextIdent ==
    \/ FormatEntryIDCall
    \/ FormatLegIDCall
    \/ EntryGroupCall

SpecIdent == InitIdent /\ [][NextIdent]_vars

----------------------------------------------------------------------------
(* Bridge.send, write by write.                                            *)

\* The goroutines that send: the RunScript callers and the callbacks.
Senders == 1..(NumCallers + MaxCallbacks)

\* Every sender is about to send one frame.  Here the child's stdin holds
\* the pieces written, each with its sender and its position in the frame;
\* the last piece of a frame ends with the newline.
SendInit ==
    /\ arg = [fn |-> "send"]
    /\ res = [pc |-> [g \in Senders |-> "start"], off |-> [g \in Senders |-> 0]]

\* A send that does not take the mutex.
SendLockNone(g) ==
    /\ arg.fn = "send" /\ res.pc[g] = "start"
    /\ res' = [res EXCEPT !.pc[g] = "write"]
    /\ UNCHANGED <<jvars, avars, svars, arg, nextID, pending, call, mu, stdin, stdout, child, done, cbs, sd, cmd, atExit>>

\* b.mu.Lock()
SendLock(g) ==
    /\ arg.fn = "send" /\ res.pc[g] = "start"
    /\ mu = Free
    /\ mu' = <<"sender", g>>
    /\ res' = [res EXCEPT !.pc[g] = "write"]
    /\ UNCHANGED <<jvars, avars, svars, arg, nextID, pending, call, stdin, stdout, child, done, cbs, sd, cmd, atExit>>

\* fmt.Fprintf(b.stdin, "%s\n", data): the frame and its newline go to the
\* pipe in one Write, which the pipe takes piece by piece.
SendWrite(g) ==
    /\ arg.fn = "send" /\ res.pc[g] = "write"
    /\ res.off[g] < FramePieces
    /\ stdin' = Append(stdin, [g |-> g, piece |-> res.off[g] + 1])
    /\ res' = [res EXCEPT !.off[g] = @ + 1]
    /\ UNCHANGED <<jvars, avars, svars, arg, nextID, pending, call, mu, stdout, child, done, cbs, sd, cmd, atExit>>

\* b.mu.Unlock()
SendUnlock(g) ==
    /\ arg.fn = "send" /\ res.pc[g] = "write"
    /\ res.off[g] = FramePieces
    /\ mu' = Free
    /\ res' = [res EXCEPT !.pc[g] = "done"]
    /\ UNCHANGED <<jvars, avars, svars, arg, nextID, pending, call, stdin, stdout, child, done, cbs, sd, cmd, atExit>>

send(g) ==
    \/ SendLock(g)
    \/ SendWrite(g)
    \/ SendUnlock(g)

InitSend == JournalInit /\ BridgeInit /\ AgentInit /\ StoreInit /\ SendInit

NextSend == \E g \in Senders : send(g)

SpecSend == InitSend /\ [][NextSend]_vars

----------------------------------------------------------------------------
(* Specifications.                                                         *)

Init == JournalInit /\ BridgeInit /\ PureInit /\ AgentInit /\ StoreInit

\* The journal service under a sequence of non-overlapping AddDouble calls.
Next == AddDouble

Spec == Init /\ [][Next]_vars

\* The same, with the process killed in the middle of calls.
NextCrash == AddDouble \/ Kill

SpecCrash == Init /\ [][NextCrash]_vars

\* The child without callbacks: it reads requests, answers them in any
\* order, or exits.
ChildRuns ==
    \/ ChildRead
    \/ \E r \in child.running, form \in {"int", "float"}, code \in {0, 0 - 32603} :
          ChildRespond(r, form, code)
    \/ ChildDies

\* Concurrent RunScript calls on one bridge, under arbitrary scheduling of
\* the callers, the child and readLoop.
NextBridge ==
    \/ \E c \in Callers : RunScript(c)
    \/ ChildRuns
    \/ ReadLoopResponse
    \/ ReadLoopExit

SpecBridge == Init /\ [][NextBridge]_vars

\* Goroutines are scheduled fairly and timers fire; nothing is assumed of
\* the child.
BridgeFairness ==
    /\ \A c \in Callers :
          /\ WF_vars(RunScriptSend(c))
          /\ WF_vars(RunScriptReceive(c))
          /\ WF_vars(RunScriptExited(c))
          /\ WF_vars(TimerExpires(c))
          /\ WF_vars(RunScriptTimeout(c))
    /\ WF_vars(ReadLoopResponse)
    /\ WF_vars(ReadLoopExit)

\* The child answering with results and integer ids only: whether and when
\* a call returns depends on neither.
ChildAnswers ==
    \/ ChildRead
    \/ \E r \in child.running : ChildRespond(r, "int", 0)
    \/ ChildDies

NextLive ==
    \/ \E c \in Callers : RunScript(c)
    \/ ChildAnswers
    \/ ReadLoopResponse
    \/ ReadLoopExit

FairSpecBridge == Init /\ [][NextLive]_vars /\ BridgeFairness

\* One RunScript call whose script calls primitives back.  The call's own
\* send finds the pipe empty, so it never waits for room in it.
NextCallback ==
    \/ RunScriptRegister(1)
    \/ RunScriptSend(1)
    \/ RunScriptReceive(1)
    \/ RunScriptExited(1)
    \/ TimerExpires(1)
    \/ RunScriptTimeout(1)
    \/ Child
    \/ readLoop
    \/ \E i \in 1..MaxCallbacks : handleCallback(i)

SpecCallback == Init /\ [][NextCallback]_vars

\* RunScript calls before, during and after calls of Shutdown.
NextShutdown ==
    \/ \E c \in Callers : RunScript(c)
    \/ ChildAnswers
    \/ ReadLoopResponse
    \/ ReadLoopExit
    \/ Shutdown

SpecShutdown == Init /\ [][NextShutdown]_vars

\* One run of an agent whose script logs through ctx_log: the driver, its
\* RunScript call, the child, readLoop and the callbacks.
NextAgent ==
    \/ \E found \in BOOLEAN : RunAgentBegin(found)
    \/ RunAgentRunScript
    \/ RunScriptSend(1)
    \/ RunScriptReceive(1)
    \/ RunScriptExited(1)
    \/ TimerExpires(1)
    \/ RunScriptTimeout(1)
    \/ RunAgentFailed
    \/ RunAgentSucceeded
    \/ RunAgentShutdown
    \/ ShutdownSend
    \/ ShutdownSendBlocks
    \/ ShutdownWait
    \/ RunAgentReturn
    \/ ChildRead
    \/ \E r \in child.running, code \in {0, 0 - 32603} : ChildRespond(r, "int", code)
    \/ ChildCallback("ctx_log", "int")
    \/ ChildDies
    \/ readLoop
    \/ \E i \in 1..MaxCallbacks : handleCallback(i)

SpecAgent == Init /\ [][NextAgent]_vars

\* The validator applied to sets of at most MaxLegs legs.
InitValidate == JournalInit /\ BridgeInit /\ ValidateInit /\ AgentInit /\ StoreInit

NextValidate == ValidateAll

SpecValidate == InitValidate /\ [][NextValidate]_vars

\* AddDouble calls one after the other, with ReadMonth calls in between.
\* AddDouble called again and again with the same parameters.
InitGiven == AddInit /\ BridgeInit /\ AgentInit /\ StoreInit

NextGiven ==
    \/ AddDoubleGiven
    \/ AddDoubleMkdir
    \/ AddDoubleStat
    \/ AddDoubleOpen
    \/ AddDoubleHeader
    \/ AddDoubleAppend

SpecGiven == InitGiven /\ [][NextGiven]_vars

\* NextEntrySeq applied to month files of at most MaxLegs rows.
InitSeq == SeqInit /\ BridgeInit /\ AgentInit /\ StoreInit

NextSeq == NextEntrySeqCall

SpecSeq == InitSeq /\ [][NextSeq]_vars

NextRead ==
    \/ AddDouble
    \/ \E d \in Dates : ReadMonthCall(d)

SpecRead == Init /\ [][NextRead]_vars

----------------------------------------------------------------------------
(* Properties of the journal service.                                      *)

\* What ReadMonth returns for the month file at each date's period.
Persisted(d) == ReadMonth(d.year, d.month)

GroupsOf(legs) == {EntryGroup(legs[i].EntryID) : i \in 1..Len(legs)}

LegsOfGroup(legs, g) == {i \in 1..Len(legs) : EntryGroup(legs[i].EntryID) = g}

Balanced(legs) ==
    \A g \in GroupsOf(legs) : SumOver(legs, g, "Debit") = SumOver(legs, g, "Credit")

\* C1: after any sequence of non-overlapping AddDouble calls, succeeding or
\* failing, from empty months, every entry group of every persisted month
\* file has its debits sum to its credits.
C1_GroupsBalance ==
    \A d \in Dates : LET r == Persisted(d) IN r.ok /\ Balanced(r.legs)

\* A month holds two entries and a later call has been rejected.
C1_Witness ==
    /\ w.pc = "idle"
    /\ last.kind = "error"
    /\ \E d \in Dates : Cardinality(GroupsOf(Persisted(d).legs)) = 2

\* C2: every persisted leg has exactly one of debit > 0 or credit > 0,
\* whatever the amount passed to AddDouble (zero and negative included).
C2_OneSidePositive ==
    \A d \in Dates :
        LET legs == Persisted(d).legs
        IN  \A i \in 1..Len(legs) : (legs[i].Debit > 0) # (legs[i].Credit > 0)

\* The records AddDouble must have added to the file of its month.
Added(outcome) ==
    (IF outcome.before[outcome.path].exists THEN <<>> ELSE <<Header>>)
    \o <<MarshalLeg(outcome.newLegs[1]), MarshalLeg(outcome.newLegs[2])>>

\* C3: AddDouble is all-or-nothing.  A call whose validation of the
\* persisted legs together with the two proposed legs yields an issue
\* returns the aggregated validation error and leaves every month file and
\* directory as it was; a call that returns an id had no issue and has
\* appended both legs (after the header when it created the file).
C3_AllOrNothing ==
    (w.pc = "idle") =>
        /\ last.kind = "error" =>
              /\ last.err = "validation failed"
              /\ files = last.before
              /\ dirs = last.dirsBefore
        /\ last.kind = "ok" =>
              /\ ValidateLegs(ReadLegs(last.before[last.path].records).legs \o last.newLegs,
                              last.newLegs[1].Date.year, last.newLegs[1].Date.month) = <<>>
              /\ files = [last.before EXCEPT
                            ![last.path] = [exists |-> TRUE,
                                            records |-> @.records \o Added(last)]]

\* A call was rejected although its own two legs are valid: the issue comes
\* from the legs already in the file.
C3_Witness ==
    /\ w.pc = "idle"
    /\ last.kind = "error"
    /\ LET existing == ReadLegs(last.before[last.path].records).legs
       IN  /\ BalanceIssues(existing) # <<>>
           /\ Len(existing) = 1

\* C4: from empty months, the k-th successful AddDouble of a month returns
\* the base id with sequence k; the persisted base sequence numbers are
\* exactly 1..k, each carried by a debit leg with suffix a and a credit leg
\* with suffix b; NextEntrySeq is k + 1; failed calls consume no number.
C4_Sequencing ==
    /\ (w.pc = "idle" /\ last.kind = "ok") =>
          \E d \in Dates :
              /\ last.path = monthPath(d.year, d.month)
              /\ last.entryID = FormatEntryID(d.year, d.month, okCount[last.path])
    /\ \A d \in Dates :
          LET k    == okCount[monthPath(d.year, d.month)]
              r    == Persisted(d)
              legs == r.legs
          IN  /\ r.ok
              /\ Len(legs) = 2 * k
              /\ \A n \in 1..k :
                    LET base == FormatEntryID(d.year, d.month, n)
                        a    == legs[2 * n - 1]
                        b    == legs[2 * n]
                    IN  /\ a.EntryID = base \o <<"a">>
                        /\ a.Debit # 0 /\ a.Credit = 0
                        /\ b.EntryID = base \o <<"b">>
                        /\ b.Credit # 0 /\ b.Debit = 0
              /\ NextEntrySeq(d.year, d.month) = [ok |-> TRUE, seq |-> k + 1]

\* Two calls of one month succeeded and a third one was rejected.
C4_Witness ==
    /\ w.pc = "idle"
    /\ last.kind = "error"
    /\ okCount[last.path] = 2

\* C10: wherever the process is killed during AddDouble, every month file
\* left on disk starts with the header, reads back without error, holds
\* legs that satisfy the invariants with no single-leg entry, and accepts a
\* further valid AddDouble.
C10_KillSafe ==
    (w.pc = "idle") =>
        \A d \in Dates :
            LET f   == files[monthPath(d.year, d.month)]
                r   == Persisted(d)
                ok  == [Date |-> d, DebitAccount |-> 5020, CreditAccount |-> 1010,
                        Amount |-> 2500]
                id  == FormatEntryID(d.year, d.month, MaxSeq(r.legs) + 1)
            IN  f.exists =>
                  /\ Len(f.records) > 0 /\ f.records[1] = Header
                  /\ r.ok
                  /\ ValidateLegs(r.legs, d.year, d.month) = <<>>
                  /\ \A g \in GroupsOf(r.legs) : Cardinality(LegsOfGroup(r.legs, g)) >= 2
                  /\ ValidateLegs(r.legs \o NewLegs(ok, id), d.year, d.month) = <<>>

----------------------------------------------------------------------------
(* Properties of the sandbox bridge.                                       *)

Returned(c) == call[c].pc = "done"

GotResponse(c) == Returned(c) /\ call[c].ret.kind \in {"result", "rpcerror"}

\* C5: whatever the order in which the child answers N concurrent RunScript
\* calls, and whether an id arrives as an integer or as a float, a call
\* that returns a response returns the one carrying its own id and the
\* payload of its own script; no call returns another call's payload.
C5_NoMixUp ==
    \A c \in Callers :
        GotResponse(c) =>
            /\ toInt(call[c].ret.resp.ID) = call[c].id
            /\ call[c].ret.resp.Result \in {Value(c), Null}
            /\ call[c].ret.kind = "result" => call[c].ret.resp.Result = Value(c)

\* The call with the larger id has returned its own result while the call
\* with the smaller id, sent first, still waits for its response.
C5_Witness ==
    \E c, e \in Callers :
        /\ call[c].id < call[e].id
        /\ call[c].pc = "select" /\ call[c].ch = <<>>
        /\ GotResponse(e) /\ call[e].ret.kind = "result"
        /\ call[e].ret.resp.Result = Value(e)

\* C6: a RunScript call whose request the child never answers does not
\* wait forever.  Every call waiting in its select returns; a call that
\* returns while its response has not come and the bridge has not exited
\* returns the timeout error (or the error of its failed send); and the
\* step that returns the timeout error writes nothing to the child.
C6_Timeout ==
    /\ \A c \in Callers : (call[c].pc = "select") ~> Returned(c)
    /\ [](\A c \in Callers :
            (Returned(c) /\ call[c].id \in pending /\ ~done)
                => call[c].ret.kind \in {"timeout", "senderr"})
    /\ [][\A c \in Callers :
            (call[c].pc = "select" /\ call'[c].ret.kind = "timeout")
                => (stdin' = stdin /\ child' = child /\ mu' = mu)]_vars

\* A call has returned the timeout error while the child is alive and its
\* script is still running there, unanswered.
C6_Witness ==
    \E c \in Callers :
        /\ Returned(c) /\ call[c].ret.kind = "timeout"
        /\ child.alive /\ ~done
        /\ \E r \in child.running : r.id = call[c].id

ExitErrors == {"exited", "timeout", "senderr"}

\* C7 as stated: every call that is waiting for its response when the
\* child's stdout reaches end of file returns "bridge process exited
\* unexpectedly".
C7_AllReturnExited ==
    \A c \in atExit.waiting : Returned(c) => call[c].ret.kind = "exited"

\* C7, amended: when the child's stdout reaches end of file, every RunScript
\* call that has not returned by then returns; a call whose response had
\* not been read by then returns an error and never a success, the error
\* being "bridge process exited unexpectedly", the timeout error of a
\* deadline that has expired as well, or the error of its own failed write.
C7_InFlightFail ==
    /\ [](\A c \in atExit.waiting :
            Returned(c) => call[c].ret.kind \in {"exited", "timeout"})
    /\ [](\A c \in atExit.sending :
            Returned(c) => call[c].ret.kind \in ExitErrors)
    /\ \A c \in Callers :
            (c \in atExit.sending \cup atExit.waiting \cup atExit.answered) ~> Returned(c)

\* One call was waiting for its response and another was sending its
\* request when the child exited; both have returned, the first with the
\* exit error and the second with the error of its write.
C7_Witness ==
    /\ done
    /\ \E c \in atExit.waiting : Returned(c) /\ call[c].ret.kind = "exited"
    /\ \E c \in atExit.sending : Returned(c) /\ call[c].ret.kind = "senderr"

\* The response frame of a finished callback.
ReplyShape(cb) ==
    LET f == cb.sent[1]
    IN  /\ f.method = ""
        /\ DecodeID(f.id) = cb.ID
        /\ "result" \in f.fields
        /\ ("error" \in f.fields) = (cb.reply.Code # 0)
        /\ f.code = cb.reply.Code
        /\ f.payload = cb.reply.Result
        /\ IF cb.method \in Handlers
           THEN cb.reply.Code \in {0, 0 - 32000}
           ELSE cb.reply.Code = 0 - 32601

\* C8: for every callback request read from the child, handleCallback
\* sends exactly one response frame, with the id of the request; the frame
\* has a result field even when the handler's value is null; it has an
\* error (-32601) when the primitive is unknown and an error (-32000) when
\* the handler fails; and the frame is written to the stdin of a child that
\* is still running.
C8_OneReply ==
    /\ [](\A i \in 1..Len(cbs) :
            /\ Len(cbs[i].sent) <= 1
            /\ cbs[i].pc # "done" => cbs[i].sent = <<>>
            /\ cbs[i].pc = "done" => (Len(cbs[i].sent) = 1 /\ ReplyShape(cbs[i])))
    /\ [][\A i \in 1..Len(cbs) :
            (cbs[i].pc = "reply" /\ cbs'[i].pc = "done" /\ child.alive)
                => stdin' = Append(stdin, cbs'[i].sent[1])]_vars

\* A known primitive has returned nil and its response frame, with a null
\* result and no error, has been sent.
C8_Witness ==
    \E i \in 1..Len(cbs) :
        /\ cbs[i].pc = "done"
        /\ cbs[i].method \in Handlers
        /\ cbs[i].reply.Code = 0
        /\ cbs[i].sent[1].payload = Null
        /\ "result" \in cbs[i].sent[1].fields

\* C9: a second Shutdown after the first has completed returns what the
\* first returned, and a RunScript call issued after Shutdown fails on its
\* send, without waiting for a response or a deadline.
C9_ShutdownIdempotent ==
    /\ Len(sd.rets) >= 2 => sd.rets[2] = sd.rets[1]
    /\ \A c \in Callers :
          call[c].late =>
              /\ call[c].pc \in {"send", "done"}
              /\ Returned(c) => call[c].ret.kind = "senderr"

----------------------------------------------------------------------------
(* Properties of single operations.                                        *)

\* The invariants a set of legs of the month violates, as the data model
\* states them.
Violated(legs, year, month) ==
    LET L == 1..Len(legs)
        parsed(i) == ParseEntryID(legs[i].EntryID)
        seqs == {parsed(i).seq : i \in {j \in L : parsed(j).ok}}
    IN  (IF ~Balanced(legs) THEN {1} ELSE {})
        \cup (IF \E i \in L : (legs[i].Debit = 0) = (legs[i].Credit = 0) THEN {2} ELSE {})
        \cup (IF \E i \in L : legs[i].AccountID \notin Chart THEN {3} ELSE {})
        \cup (IF \E i \in L : legs[i].Date.year # year \/ legs[i].Date.month # month
              THEN {4} ELSE {})
        \cup (IF (\E i \in L : ~parsed(i).ok) \/ seqs # 1..Cardinality(seqs)
              THEN {5} ELSE {})
        \cup (IF \E i \in L : legs[i].Debit % 10 # 0 \/ legs[i].Credit % 10 # 0
              THEN {6} ELSE {})

InvariantsOf(issues) == {issues[i].Invariant : i \in 1..Len(issues)}

ParseableSeqs(legs) ==
    {ParseEntryID(legs[i].EntryID).seq :
        i \in {j \in 1..Len(legs) : ParseEntryID(legs[j].EntryID).ok}}

\* C12: ReadMonth returns the legs appended by the preceding successful
\* AddDouble calls of the month, in append order and with the fields the
\* calls were given.  A month never written reads as the empty list without
\* error; a successful AddDouble extends what ReadMonth returns by its debit
\* leg and its credit leg and leaves the other months alone; what a
\* ReadMonth call returned after k successful calls is the first 2k legs of
\* the month; and a ReadMonth call changes no file and no directory.
C12_ReadBack ==
    /\ [](\A d \in Dates :
            ~files[monthPath(d.year, d.month)].exists
                => Persisted(d) = [ok |-> TRUE, legs |-> <<>>])
    /\ []((w.pc = "idle" /\ last.kind = "ok") =>
            LET was == ReadLegs(last.before[last.path].records)
                now == ReadLegs(files[last.path].records)
            IN  /\ was.ok /\ now.ok
                /\ now.legs = was.legs \o last.newLegs
                /\ Len(now.legs) = 2 * okCount[last.path]
                /\ \A p \in Paths \ {last.path} : files[p] = last.before[p])
    /\ []((arg.fn = "ReadMonth" /\ res.done) =>
            LET now == ReadMonth(arg.year, arg.month)
            IN  /\ res.ok
                /\ Len(res.legs) = 2 * res.after
                /\ res.legs = SubSeq(now.legs, 1, 2 * res.after))
    /\ [][pvars' # pvars => (files' = files /\ dirs' = dirs)]_vars

\* ReadMonth has returned the four legs of two entries.
C12_Witness ==
    /\ arg.fn = "ReadMonth" /\ res.done /\ res.ok
    /\ Len(res.legs) = 4
    /\ res.legs[1].Debit # 0 /\ res.legs[2].Credit # 0

\* C13: NextEntrySeq returns, without error, one more than the largest
\* sequence number among the rows whose entry id parses; rows whose id does
\* not parse are skipped; a missing file, an empty file and a file without a
\* parseable id give 1.  The month file is afterwards what it was before.
C13_NextSeq ==
    (arg.fn = "NextEntrySeq" /\ res.done) =>
        LET seqs == ParseableSeqs(arg.legs)
        IN  /\ res.ok
            /\ res.seq >= 1
            /\ seqs = {} => res.seq = 1
            /\ seqs # {} => /\ res.seq - 1 \in seqs
                            /\ \A n \in seqs : n < res.seq
            /\ files[monthPath(arg.year, arg.month)] = FileOf(arg.shape, arg.legs)
            /\ \A p \in Paths \ {monthPath(arg.year, arg.month)} : files[p] = NoFile

\* NextEntrySeq has returned 3 for a file whose last row carries sequence
\* number 1 and that holds a row with an unparseable id.
C13_Witness ==
    /\ arg.fn = "NextEntrySeq" /\ res.done
    /\ Len(arg.legs) = 3
    /\ \E i \in 1..3 : ~ParseEntryID(arg.legs[i].EntryID).ok
    /\ ParseEntryID(arg.legs[3].EntryID).ok /\ ParseEntryID(arg.legs[3].EntryID).seq = 1
    /\ res.seq = 3

\* C14: when the driver of an agent run whose primitives were registered
\* returns, every entry ctx_log had collected by the time RunScript returned,
\* with a result or with an error, is a row of the audit file.
C14_AuditPersisted ==
    (drv.pc = "returned" /\ drv.err # "reading agent") =>
        \A k \in 1..Len(drv.collected) : \E n \in 1..Len(audit) : audit[n] = drv.collected[k]

\* C15: once a write to the child's stdin has failed (a RunScript call has
\* returned the error of its send), no RunScript call that is still in flight
\* returns a result: each of them returns an error.
C15_WriteErrorFailsAll ==
    [][\A c \in Callers :
          ((\E f \in Callers : call[f].ret.kind = "senderr")
              /\ call[c].pc \in {"send", "select"} /\ call'[c].pc = "done")
          => call'[c].ret.kind # "result"]_vars

\* The error codes of the host's responses.
HostCodes == {0 - 32601, 0 - 32000}

\* C16: a callback for a primitive without handler is answered with error
\* -32601 and no handler runs for it; a callback whose handler returned an
\* error is answered with error -32000 and the handler's message; a callback
\* whose handler returned no error is answered without error; and every
\* response the host writes carries no error or one of these two codes.
C16_ErrorCodes ==
    /\ \A i \in 1..Len(cbs) :
          cbs[i].pc \in {"reply", "done"} =>
              /\ cbs[i].method \notin Handlers =>
                    (cbs[i].reply.Code = 0 - 32601 /\ ~cbs[i].invoked)
              /\ cbs[i].method \in Handlers => cbs[i].invoked
              /\ (cbs[i].invoked /\ cbs[i].herr # <<>>) =>
                    (cbs[i].reply.Code = 0 - 32000 /\ cbs[i].reply.Message = cbs[i].herr)
              /\ (cbs[i].invoked /\ cbs[i].herr = <<>>) => cbs[i].reply.Code = 0
              /\ cbs[i].pc = "done" =>
                    /\ cbs[i].sent[1].code = cbs[i].reply.Code
                    /\ cbs[i].sent[1].message = cbs[i].reply.Message
    /\ \A k \in 1..Len(stdin) :
          stdin[k].method = "" =>
              /\ stdin[k].code \in HostCodes \cup {0}
              /\ ("error" \in stdin[k].fields) = (stdin[k].code \in HostCodes)

\* Both kinds of error have been sent: one callback without handler and one
\* whose handler failed.
C16_Witness ==
    /\ \E i \in 1..Len(cbs) :
          cbs[i].pc = "done" /\ ~cbs[i].invoked /\ cbs[i].sent[1].code = 0 - 32601
    /\ \E i \in 1..Len(cbs) :
          /\ cbs[i].pc = "done" /\ cbs[i].invoked
          /\ cbs[i].sent[1].code = 0 - 32000
          /\ cbs[i].sent[1].message = HandlerError(cbs[i].method)

\* The shutdown notification as Shutdown writes it.
ShutdownFrame == MarshalRequest("shutdown", [type |-> "nil", val |-> 0], Absent)

\* The state of the bridge's lifecycle.  The bridge exists once NewBridge
\* has spawned the child, so it is never seen in Starting; it is Terminated
\* when the child has exited or readLoop has given up reading, Draining
\* when Shutdown is past its send, and Running otherwise.
Lifecycle ==
    IF ~child.alive \/ done THEN "Terminated"
    ELSE IF sd.pc = "wait" \/ sd.rets # <<>> THEN "Draining"
    ELSE "Running"

\* C17: the lifecycle of the bridge only moves forward, from Running to
\* Draining, from Draining to Terminated, or from Running directly to
\* Terminated; it enters Draining in the step of Shutdown that writes the
\* shutdown notification to the child's stdin, and it enters Terminated only
\* with the child exited.  A bridge that is Terminated accepts no frame.
C17_Lifecycle ==
    /\ [][Lifecycle' # Lifecycle =>
            /\ <<Lifecycle, Lifecycle'>> \in {<<"Running", "Draining">>,
                                              <<"Draining", "Terminated">>,
                                              <<"Running", "Terminated">>}
            /\ Lifecycle' = "Draining" =>
                  (sd.pc = "send" /\ stdin' = Append(stdin, ShutdownFrame))
            /\ Lifecycle' = "Terminated" => ~child'.alive]_vars
    /\ [][Lifecycle = "Terminated" =>
            (Lifecycle' = "Terminated" /\ (stdin' = stdin \/ stdin' = <<>>))]_vars

\* A bridge that answered a call, was shut down and is Terminated.
C17_Witness ==
    /\ Lifecycle = "Terminated"
    /\ sd.rets # <<>>
    /\ sd.rets[1] = "nil"
    /\ \E c \in Callers : call[c].ret.kind = "result"

\* The issues ValidateLegs returns for the legs of the month on disk followed
\* by the two legs AddDouble makes of the parameters.
IssuesFor(params) ==
    LET year     == params.Date.year
        month    == params.Date.month
        existing == ReadMonth(year, month)
        entryID  == FormatEntryID(year, month, SeqAfter(existing).seq)
    IN  ValidateLegs(existing.legs \o NewLegs(params, entryID), year, month)

\* The invariants named by the issues of a rejected call with the given
\* parameters; for a call that fails nothing is written, so the disk is the
\* one the call validated against.
InvariantsFor(params) == {IssuesFor(params)[i].Invariant : i \in 1..Len(IssuesFor(params))}

\* The legs persisted in all months.
AllPersisted == UNION {{Persisted(d).legs[i] : i \in 1..Len(Persisted(d).legs)} : d \in Dates}

\* C18: a call of AddDouble whose debit account or credit account is not in
\* the chart never gets past validation: it fails with an issue of invariant
\* 3 and no directory or file is created or written.  Every persisted leg
\* names an account of the chart.
C18_KnownAccounts ==
    /\ (arg.fn = "AddDouble"
          /\ (arg.params.DebitAccount \notin Chart \/ arg.params.CreditAccount \notin Chart)) =>
            /\ w.pc = "idle"
            /\ dirs = SeedDirs(arg.seeded)
            /\ files = SeedFiles(arg.seeded)
            /\ last.kind \in {"none", "error"}
            /\ last.kind = "error" =>
                  (last.err = "validation failed" /\ 3 \in InvariantsFor(arg.params))
    /\ \A d \in Dates : Persisted(d).ok
    /\ \A leg \in AllPersisted : leg.AccountID \in Chart

\* A call with a credit account outside the chart, everything else valid,
\* has failed on a ledger that holds an entry.
C18_Witness ==
    /\ arg.fn = "AddDouble"
    /\ arg.seeded
    /\ arg.params.CreditAccount \notin Chart
    /\ arg.params.DebitAccount \in Chart
    /\ arg.params.Amount = 2500
    /\ last.kind = "error"

\* C19: a call of AddDouble whose amount has more than two decimal places
\* never gets past validation: it fails with an issue of invariant 6 and no
\* directory or file is created or written.  Every persisted amount is a
\* whole number of hundredths, and the two legs of an entry carry the amount
\* the call was given, one as debit and one as credit.
C19_TwoPlaces ==
    /\ (arg.fn = "AddDouble" /\ arg.params.Amount % 10 # 0) =>
            /\ w.pc = "idle"
            /\ dirs = SeedDirs(arg.seeded)
            /\ files = SeedFiles(arg.seeded)
            /\ last.kind \in {"none", "error"}
            /\ last.kind = "error" =>
                  (last.err = "validation failed" /\ 6 \in InvariantsFor(arg.params))
    /\ \A d \in Dates : Persisted(d).ok
    /\ \A leg \in AllPersisted :
          /\ leg.Debit % 10 = 0 /\ leg.Credit % 10 = 0
          /\ (arg.fn = "AddDouble" /\ ~(arg.seeded /\ leg \in {SeedLegs[1], SeedLegs[2]})) =>
                <<leg.Debit, leg.Credit>> \in {<<arg.params.Amount, 0>>, <<0, arg.params.Amount>>}

\* A call with amount 1.005 and accounts of the chart has failed.
C19_Witness ==
    /\ arg.fn = "AddDouble"
    /\ arg.params.Amount = 1005
    /\ arg.params.DebitAccount \in Chart /\ arg.params.CreditAccount \in Chart
    /\ last.kind = "error"

\* Two legs of the set carry the same full entry id.
SameFullID(legs) ==
    \E i, j \in 1..Len(legs) : i # j /\ legs[i].EntryID = legs[j].EntryID

\* C20: a set of legs in which two legs carry the same full entry id is not
\* accepted: ValidateLegs returns an issue for it (of invariant 5, by the
\* claim) and AddDouble's validation step fails.
C20_DuplicateRejected ==
    (arg.fn = "ValidateLegs" /\ res.done /\ SameFullID(arg.legs)) =>
        /\ res.verrs # <<>>
        /\ res.err.kind = "validation failed"

----------------------------------------------------------------------------
(* Properties of the primitives.                                           *)

\* The keyword arguments of journal_add_double that have no value of their
\* target type: a date that is not a string naming a calendar date, an
\* amount or a confidence that is not a number, a decimal string or null, an
\* account that is not a number, a status that is not a string or null.
Uncoercible(kwargs) ==
    (IF kwargs.date.type = "string" /\ ParseDate(kwargs.date.str).ok THEN {} ELSE {"date"})
    \cup {k \in {"amount", "confidence"} :
            ~(\/ kwargs[k].type \in {"float64", "nil"}
              \/ (kwargs[k].type = "string" /\ NewFromString(kwargs[k].str).ok))}
    \cup {k \in {"debit_account", "credit_account"} : kwargs[k].type # "float64"}
    \cup (IF kwargs.status.type \in {"string", "nil"} THEN {} ELSE {"status"})

\* C21: a journal_add_double callback with an argument that cannot be
\* coerced to its target type writes nothing to the ledger, and the call
\* returns an error.
C21_CoercionFails ==
    (arg.fn = "journal_add_double" /\ Uncoercible(arg.kwargs) # {}) =>
        /\ w.pc = "idle"
        /\ dirs = SeedDirs(arg.seeded)
        /\ files = SeedFiles(arg.seeded)
        /\ res.done => res.err # "nil"

\* What a journal_add_double callback with the given keyword arguments comes
\* to on the given ledger, worked out from the arguments and the ledger
\* alone: whether it is accepted, the id of its entry and the legs of the
\* month after it.
Outcome(kwargs, seeded) ==
    LET coerced  == CoerceArgs(kwargs)
        params   == coerced.params
        year     == params.Date.year
        month    == params.Date.month
        inSeed   == seeded /\ monthPath(year, month) = SeedPath
        existing == IF inSeed THEN SeedLegs ELSE <<>>
        entryID  == FormatEntryID(year, month, IF inSeed THEN 2 ELSE 1)
        newLegs  == NewLegs(params, entryID)
    IN  IF coerced.err # "nil"
        THEN [accepted |-> FALSE, entryID |-> <<>>, legs |-> <<>>]
        ELSE [accepted |-> ValidateLegs(existing \o newLegs, year, month) = <<>>,
              entryID |-> entryID, legs |-> existing \o newLegs]

----------------------------------------------------------------------------
(* Properties of the versioned store.                                      *)

\* C23: when CommitAll has returned the error of its commit step, the index
\* and the history of the store are what they were when it was called; when
\* it has returned a hash, the history is longer by exactly one commit, which
\* carries the given author and the returned hash.
C23_CommitAtomic ==
    git.pc = "idle" =>
        /\ (git.ret.kind = "error" /\ git.ret.step = "git commit") =>
              (git.index = git.before.index /\ git.log = git.before.log)
        /\ git.ret.kind = "ok" =>
              /\ Len(git.log) = Len(git.before.log) + 1
              /\ SubSeq(git.log, 1, Len(git.before.log)) = git.before.log
              /\ git.log[Len(git.log)].author = git.author
              /\ git.log[Len(git.log)].hash = git.ret.hash

----------------------------------------------------------------------------
(* Properties of the import directory.                                     *)

\* C24: a file for which importer_mark_processed has succeeded is absent
\* from import/ and present in import/processed/, and no later importer_scan
\* lists it: a scan lists only files of import/ itself.  When the call
\* has returned an error, a file that was in import/ is still there.
C24_MarkProcessed ==
    /\ [](/\ \A f \in inbox.moved : f \notin inbox.import /\ f \in inbox.processed
          /\ (inbox.pc = "idle" /\ inbox.err \notin {"", "nil"} /\ inbox.had) =>
                inbox.f \in inbox.import)
    /\ [][inbox'.scans # inbox.scans =>
            (inbox'.listed \cap inbox.moved = {} /\ inbox'.listed \subseteq inbox.import)]_vars

\* A file has been moved, a later scan has listed another file, and a call
\* for a third file has failed with the file still in import/.
C24_Witness ==
    /\ inbox.moved # {}
    /\ inbox.listed # {}
    /\ inbox.pc = "idle" /\ inbox.err = "moving to processed" /\ inbox.had
    /\ inbox.f \in inbox.import

----------------------------------------------------------------------------
(* Properties of the ledger codec.                                         *)

\* The text is digits, a point and exactly two digits, with an optional
\* sign in front.
TwoPlaceText(s) ==
    LET body == IF Len(s) > 0 /\ s[1] = "-" THEN Tail(s) ELSE s
    IN  /\ Len(body) >= 4
        /\ body[Len(body) - 2] = "."
        /\ \A i \in 1..Len(body) : i # Len(body) - 2 => IsDigit(body[i])

\* The rows written for the legs, without the header of WriteLegs.
RowsWritten == IF arg.fn = "WriteLegs" THEN Tail(res.records) ELSE res.records

\* Zero amounts are written as empty fields, all others with two places.
FieldsFormatted ==
    \A i \in 1..Len(arg.legs) :
        /\ RowsWritten[i].debit =
              (IF arg.legs[i].Debit = 0 THEN <<>> ELSE RowsWritten[i].debit)
        /\ arg.legs[i].Debit # 0 => TwoPlaceText(RowsWritten[i].debit)
        /\ RowsWritten[i].credit =
              (IF arg.legs[i].Credit = 0 THEN <<>> ELSE RowsWritten[i].credit)
        /\ arg.legs[i].Credit # 0 => TwoPlaceText(RowsWritten[i].credit)

\* The legs read back carry the amounts of the legs written.
AmountsBack(legs) ==
    /\ res.ok
    /\ Len(res.legs) = Len(legs)
    /\ \A i \in 1..Len(legs) :
          res.legs[i].Debit = legs[i].Debit /\ res.legs[i].Credit = legs[i].Credit

\* C25, as stated: every leg written by MarshalLeg or WriteLegs is read
\* back by UnmarshalLeg or ReadLegs with exactly the debit and credit
\* written; zero is written as an empty field, any other amount with
\* exactly two decimal places.
C25_RoundTripAny ==
    /\ (arg.fn \in {"MarshalLeg", "WriteLegs"} /\ res.pc \in {"written", "read"}) =>
          FieldsFormatted
    /\ (arg.fn \in {"MarshalLeg", "WriteLegs"} /\ res.pc = "read") => AmountsBack(arg.legs)

\* C25, amended: the amounts read back are exactly the ones written when
\* the amounts written have at most two decimal places; the fields are
\* formatted as stated for every leg.
C25_RoundTrip ==
    /\ (arg.fn \in {"MarshalLeg", "WriteLegs"} /\ res.pc \in {"written", "read"}) =>
          FieldsFormatted
    /\ (/\ arg.fn \in {"MarshalLeg", "WriteLegs"} /\ res.pc = "read"
        /\ \A i \in 1..Len(arg.legs) :
              arg.legs[i].Debit % 10 = 0 /\ arg.legs[i].Credit % 10 = 0)
          => AmountsBack(arg.legs)

\* WriteLegs has written a leg with debit 0.30 and a leg with credit 33.33
\* and ReadLegs has read them back.
C25_Witness ==
    /\ arg.fn = "WriteLegs" /\ res.pc = "read"
    /\ arg.legs = <<CodecLeg(300, 0), CodecLeg(0, 33330)>>
    /\ res.ok /\ res.legs[1].Debit = 300 /\ res.legs[2].Credit = 33330

----------------------------------------------------------------------------
(* Properties of the identifiers.                                          *)

\* C26: for every year, month, sequence number from 1 on and every leg
\* index FormatLegID takes, the group of the leg id formatted from an entry
\* id is that entry id.
C26_LegIDRoundTrip ==
    (arg.fn = "FormatLegID" /\ res.pc = "group") =>
        (res.group = res.entryID
           /\ res.entryID = FormatEntryID(arg.year, arg.month, arg.seq))

----------------------------------------------------------------------------
(* Properties of the bridge's concurrency.                                 *)

\* C27: a handler that is still executing does not hold up readLoop: with
\* a frame waiting on the child's stdout, readLoop can take its next step,
\* delivering a response (for which it needs the mutex, which a handler
\* does not hold while it executes) or dispatching a further callback.
C27_NoHeadOfLine ==
    (/\ \E i \in DOMAIN cbs : cbs[i].pc = "run"
     /\ ~done /\ cmd.stdoutOpen /\ stdout # <<>>
     /\ IsResponse(Head(stdout)) => mu = Free)
        => ENABLED readLoop

\* While the first callback's handler still executes, a second callback
\* has been dispatched and the response of the run has been delivered.
C27_Witness ==
    /\ Len(cbs) >= 2
    /\ cbs[1].pc = "run"
    /\ call[1].ch # <<>> \/ GotResponse(1)

\* C28: at most one goroutine is writing to the child's stdin at any time,
\* and the pieces of every frame stand together and in order on the pipe:
\* between two pieces of one frame there is no piece of another.
C28_WholeFrames ==
    (arg.fn = "send") =>
        /\ \A g, h \in Senders : (res.pc[g] = "write" /\ res.pc[h] = "write") => g = h
        /\ \A i, j \in 1..Len(stdin) :
              (i < j /\ stdin[i].g = stdin[j].g) =>
                  /\ stdin[i].piece < stdin[j].piece
                  /\ \A k \in i..j : stdin[k].g = stdin[i].g

\* Every sender has sent its frame, the last sender's frame first.
C28_Witness ==
    /\ arg.fn = "send"
    /\ \A g \in Senders : res.pc[g] = "done"
    /\ Len(stdin) = FramePieces * (NumCallers + MaxCallbacks)
    /\ stdin[1].g = NumCallers + MaxCallbacks

\* The frame readLoop reads next is a response whose id is the id of a
\* call that has returned the timeout error.
LateHead ==
    /\ ~done /\ cmd.stdoutOpen /\ stdout # <<>>
    /\ IsResponse(Head(stdout))
    /\ \E c \in Callers :
          call[c].ret.kind = "timeout" /\ call[c].id = toInt(DecodeID(Head(stdout).id))

\* C29: a response that arrives for the id of a call that has timed out is
\* discarded.  readLoop takes it without waiting for anyone (once it has
\* the mutex); taking it changes no call's outcome and no other call's
\* channel; and a response is only ever found in the channel of the call
\* that carries its id.
C29_LateResponse ==
    /\ [](/\ (LateHead /\ mu = Free) => ENABLED ReadLoopResponse
          /\ \A c \in Callers : \A i \in 1..Len(call[c].ch) :
                toInt(call[c].ch[i].ID) = call[c].id)
    /\ [][(LateHead /\ stdout' = Tail(stdout)) =>
            \A c \in Callers :
                /\ call'[c].ret = call[c].ret
                /\ call'[c].pc = call[c].pc
                /\ call[c].ret.kind # "timeout" => call'[c].ch = call[c].ch]_vars

\* The response of a call that timed out has been taken by readLoop and
\* lies unread in that call's channel, and after it another call has
\* returned its own result.
C29_Witness ==
    \E c, e \in Callers :
        /\ call[c].ret.kind = "timeout" /\ call[c].ch # <<>>
        /\ call[c].id < call[e].id
        /\ GotResponse(e) /\ call[e].ret.kind = "result"
        /\ call[e].ret.resp.Result = Value(e)

\* The calls that have been given an id.
Registered == {c \in Callers : call[c].pc # "idle"}

\* C30: the ids of run requests are 1, 2, 3, ... in the order of the
\* registrations, also when RunScript is called concurrently: the ids given
\* out so far are exactly 1..nextID, each to one call, none is 0, and a
\* call that registers gets an id larger than every id given out before.
C30_FreshIDs ==
    /\ [](/\ {call[c].id : c \in Registered} = 1..nextID
          /\ \A c, e \in Registered : call[c].id = call[e].id => c = e
          /\ \A c \in Registered : call[c].id # 0)
    /\ [][\A c \in Callers :
            (call[c].pc = "idle" /\ call'[c].pc # "idle") =>
                /\ call'[c].id = nextID + 1
                /\ nextID' = nextID + 1
                /\ \A e \in Registered : call[e].id < call'[c].id]_vars

\* All callers have registered while none has returned, and the first
\* caller holds the last id.
C30_Witness ==
    /\ Registered = Callers
    /\ \A c \in Callers : ~Returned(c)
    /\ call[1].id = NumCallers

----------------------------------------------------------------------------
(* Properties of the validator.                                            *)

\* The issues of the given invariants, in the order of the list.
IssuesOf(issues, invs) == SelectSeq(issues, LAMBDA e : e.Invariant \in invs)

\* The positions of the legs whose entry id does not parse.
Unparsed(legs) == {i \in 1..Len(legs) : ~ParseEntryID(legs[i].EntryID).ok}

MaxOf(S) == CHOOSE m \in S : \A x \in S : x <= m

\* C32: when the sequence numbers of the set are not contiguous,
\* ValidateLegs returns one issue of invariant 5 for every number between 1
\* and the largest number present that no leg carries.
C32_AllMissing ==
    (arg.fn = "ValidateLegs" /\ res.done /\ ParseableSeqs(arg.legs) # {}) =>
        LET seqs == ParseableSeqs(arg.legs)
            gaps == (1..MaxOf(seqs)) \ seqs
            inv5 == IssuesOf(res.verrs, {5})
        IN  \A n \in gaps :
              Cardinality({k \in 1..Len(inv5) : inv5[k].EntryID = <<"seq", n>>}) = 1

\* The position of the first leg of a group.
FirstSeen(legs, g) == CHOOSE i \in 1..Len(legs) :
    /\ EntryGroup(legs[i].EntryID) = g
    /\ \A j \in 1..(i - 1) : EntryGroup(legs[j].EntryID) # g

\* The invariants among 2, 3, 4 and 6 that a leg violates, in that order;
\* 6 once for the debit and once for the credit.
LegViolations(leg, year, month) ==
    SelectSeq(<<[inv |-> 2, bad |-> (leg.Debit = 0) = (leg.Credit = 0)],
                [inv |-> 3, bad |-> leg.AccountID \notin Chart],
                [inv |-> 4, bad |-> leg.Date.year # year \/ leg.Date.month # month],
                [inv |-> 6, bad |-> leg.Debit % 10 # 0],
                [inv |-> 6, bad |-> leg.Credit % 10 # 0]>>,
              LAMBDA v : v.bad)

\* C33: ValidateLegs returns its issues in a fixed order: the issues of
\* invariant 1 in the order in which the groups are first seen, then the
\* issues of invariants 2, 3, 4 and 6 leg by leg in input order and in that
\* order within a leg, then the issues of invariant 5.
C33_IssueOrder ==
    (arg.fn = "ValidateLegs" /\ res.done) =>
        LET inv1  == IssuesOf(res.verrs, {1})
            perLeg == IssuesOf(res.verrs, {2, 3, 4, 6})
            inv5  == IssuesOf(res.verrs, {5})
        IN  /\ res.verrs = inv1 \o perLeg \o inv5
            /\ \A i, j \in 1..Len(inv1) :
                  i < j => FirstSeen(arg.legs, inv1[i].EntryID)
                             < FirstSeen(arg.legs, inv1[j].EntryID)
            /\ perLeg = Flatten([i \in 1..Len(arg.legs) |->
                            LET v == LegViolations(arg.legs[i], arg.year, arg.month)
                            IN  [k \in 1..Len(v) |->
                                    [Invariant |-> v[k].inv,
                                     EntryID |-> arg.legs[i].EntryID]]])

\* A set of legs has issues of invariant 1, of a leg and of invariant 5.
C33_Witness ==
    /\ arg.fn = "ValidateLegs" /\ res.done
    /\ IssuesOf(res.verrs, {1}) # <<>>
    /\ IssuesOf(res.verrs, {2, 3, 4, 6}) # <<>>
    /\ IssuesOf(res.verrs, {5}) # <<>>

\* C34: in every set of legs for which ValidateLegs returns no issue, every
\* entry group has at least two legs.
C34_TwoLegs ==
    (arg.fn = "ValidateLegs" /\ res.done /\ res.verrs = <<>>) =>
        \A i \in 1..Len(arg.legs) :
            \E j \in 1..Len(arg.legs) :
                j # i /\ EntryGroup(arg.legs[j].EntryID) = EntryGroup(arg.legs[i].EntryID)

\* An entry of two legs has been validated without issue.
C34_Witness ==
    /\ arg.fn = "ValidateLegs" /\ res.done /\ res.verrs = <<>>
    /\ Len(arg.legs) = 2

\* ---------------------------------------------------------------------
\* Two journal_add_double callbacks in two handleCallback goroutines.
\* AddDouble takes no lock (internal/journal/service.go holds no mutex), so
\* the system calls of the two calls interleave freely: w holds the locals
\* of the call of the goroutine that is running, res.parked those of the
\* other one.

\* What the two handlers pass to AddDouble: a valid entry or a zero amount,
\* in either month.
ConcParams == {p \in Params : /\ p.DebitAccount = 5020
                              /\ p.CreditAccount = 1010
                              /\ p.Amount \in {0, 2500}}

\* arg.serial: the caller starts a call only when no other is in progress.
ConcurrentInit ==
    /\ arg \in [fn : {"concurrent"}, serial : BOOLEAN]
    /\ res = [done |-> FALSE, parked |-> Idle]

\* A handler starts Service.AddDouble whatever the other one is doing.
ConcBeginAny(params) ==
    /\ arg.fn = "concurrent"
    /\ AddDoubleBegin(params)

\* A handler starts Service.AddDouble.
ConcBegin(params) ==
    /\ arg.fn = "concurrent"
    /\ arg.serial => res.parked.pc = "idle"
    /\ AddDoubleBegin(params)

\* The scheduler switches to the other goroutine.
Switch ==
    /\ arg.fn = "concurrent"
    /\ w # res.parked
    /\ w' = res.parked
    /\ res' = [res EXCEPT !.parked = w]
    /\ UNCHANGED <<bvars, avars, svars, arg, dirs, files, last, okCount, crashes>>

InitConcurrent == JournalInit /\ BridgeInit /\ ConcurrentInit /\ AgentInit /\ StoreInit

NextConcurrent ==
    \/ \E params \in ConcParams : ConcBegin(params)
    \/ AddDoubleMkdir
    \/ AddDoubleStat
    \/ AddDoubleOpen
    \/ AddDoubleHeader
    \/ AddDoubleAppend
    \/ Switch

SpecConcurrent == InitConcurrent /\ [][NextConcurrent]_vars

\* The persisted month reads back with unique, contiguous base ids from 1,
\* no leg id twice and every entry balanced.
MonthSound(d) ==
    LET r    == Persisted(d)
        seqs == ParseableSeqs(r.legs)
    IN  /\ r.ok
        /\ ~SameFullID(r.legs)
        /\ Unparsed(r.legs) = {}
        /\ seqs = 1..Cardinality(seqs)
        /\ Len(r.legs) = 2 * Cardinality(seqs)
        /\ Balanced(r.legs)

\* The two calls are both in progress on the same month.
Overlapping ==
    /\ w.pc # "idle"
    /\ res.parked.pc # "idle"
    /\ w.year = res.parked.year
    /\ w.month = res.parked.month

C36_TableIsWaiting ==
    /\ \A c \in Callers : Returned(c) => call[c].id \notin pending
    /\ \A id \in pending : \E c \in Callers : call[c].pc # "idle" /\ call[c].id = id

\* A call has returned on the timeout and its id is still in the table.
C36_Witness ==
    \E c \in Callers :
        /\ Returned(c)
        /\ call[c].ret.kind = "timeout"
        /\ call[c].id \in pending

\* A goroutine is blocked in the write of send, on a full pipe, with the
\* mutex held.
BlockedInWrite(g) == mu = g

\* readLoop has a response to read whose call can take it.
ResponseReady ==
    /\ ~done
    /\ cmd.stdoutOpen
    /\ stdout # <<>>
    /\ IsResponse(Head(stdout))
    /\ LET look == LookupPending(toInt(DecodeID(Head(stdout).id)))
       IN  look.ok => call[ChanOf(look.key)].ch = <<>>

\* C37: the bridge cannot deadlock on its mutex: while a goroutine is
\* blocked writing to the child's stdin, readLoop still takes the next
\* response off stdout and delivers it, and a RunScript caller blocked in
\* that write has its deadline running and returns on it.
C37_NoMutexDeadlock ==
    /\ (mu # Free /\ ResponseReady) => ENABLED ReadLoopResponse
    /\ \A c \in Callers :
          BlockedInWrite(<<"caller", c>>) =>
              (ENABLED TimerExpires(c) \/ ENABLED RunScriptTimeout(c))

\* A caller is blocked in the write while the response of another call
\* waits in stdout.
C37_Witness ==
    \E c \in Callers :
        /\ BlockedInWrite(<<"caller", c>>)
        /\ ResponseReady
        /\ ~ENABLED ReadLoopResponse

\* ---------------------------------------------------------------------
\* A child that also writes responses nobody waits for.

Stray == <<"stray">>

IsStray(msg) == IsResponse(msg) /\ msg.payload = Stray

\* The child has already written the response of the run request id.
Answered(id) ==
    \/ \E i \in 1..Len(stdout) :
          /\ IsResponse(stdout[i]) /\ ~IsStray(stdout[i])
          /\ stdout[i].id.val = id
    \/ \E c \in Callers :
          /\ call[c].id = id
          /\ call[c].ch # <<>> \/ GotResponse(c)

\* Two RunScript calls are made.
TwoCallers == {c \in Callers : c <= 2}

\* The ids of the responses nobody waits for: a number no call was given
\* (0, one past the last, any number and a half), the number of a request
\* already answered, the digits of a number as a string, and no id member.
StrayIDs ==
    {WireID("int", n) : n \in {0, Cardinality(TwoCallers) + 1}}
        \cup {WireID("int", n) : n \in {k \in TwoCallers : Answered(k)}}
        \cup {WireID("frac", n) : n \in {0} \cup TwoCallers}
        \cup {WireID("string", n) : n \in TwoCallers}
        \cup {NoWireID}

ChildStray(id) ==
    /\ child.alive
    /\ child.strays < MaxStrays
    /\ id \in StrayIDs
    /\ Len(stdout) < PipeCap
    /\ stdout' = Append(stdout,
                    Frame("", id, {"result"} \cup (IF id.form = "none" THEN {} ELSE {"id"}),
                          0, <<>>, Stray))
    /\ child' = [child EXCEPT !.strays = @ + 1]
    /\ UNCHANGED <<jvars, pvars, avars, svars, nextID, pending, call, mu, stdin, done, cbs, sd, cmd, atExit>>

StrayForms == {"int", "frac", "string", "none"}

\* The calls, a child that stays alive and answers every script, its stray
\* responses, and the read loop.
NextStray ==
    \/ \E c \in TwoCallers :
          \/ RunScriptRegister(c)
          \/ RunScriptSend(c)
          \/ RunScriptReceive(c)
          \/ TimerExpires(c)
          \/ RunScriptTimeout(c)
    \/ ChildRead
    \/ \E r \in child.running : ChildRespond(r, "int", 0)
    \/ \E form \in StrayForms, n \in 0..(Cardinality(TwoCallers) + 1) :
          ChildStray(WireID(form, n))
    \/ ReadLoopResponse

SpecStray == Init /\ [][NextStray]_vars

\* The responses a call holds: in its channel and the one it returned.
Received(c) ==
    call[c].ch \o (IF GotResponse(c) THEN <<call[c].ret.resp>> ELSE <<>>)

HalfID(v) == "half" \in DOMAIN v

\* C38: each RunScript call receives at most one response: a second
\* response for an id already answered, and a response whose id is unknown,
\* missing or not a number, are dropped, never delivered to any call, and
\* never block the read loop.
C38_StraysDropped ==
    /\ \A c \in Callers :
          /\ Len(Received(c)) <= 1
          /\ \A i \in 1..Len(Received(c)) : Received(c)[i].Result # Stray
    /\ (stdout # <<>> /\ IsStray(Head(stdout))) => ENABLED ReadLoopResponse

\* C38 (amended): each RunScript call receives at most one response; a
\* second response for an id already answered and a response whose id is
\* missing, not a number, or a number whose integer part no waiting call
\* holds, are dropped and never block the read loop.  The only response a
\* call receives that is not the one of its script carries its own id plus
\* a fraction.
C38_StraysDroppedInt ==
    /\ \A c \in Callers :
          /\ Len(Received(c)) <= 1
          /\ \A i \in 1..Len(Received(c)) :
                LET resp == Received(c)[i]
                IN  /\ toInt(resp.ID) = call[c].id
                    /\ resp.Result = Stray => HalfID(resp.ID)
    /\ (stdout # <<>> /\ IsStray(Head(stdout))) => ENABLED ReadLoopResponse

\* The child wrote its stray responses, the read loop has taken them all,
\* one call has returned the result of its own script and another still
\* waits.
C38_Witness ==
    /\ child.strays = MaxStrays
    /\ stdout = <<>>
    /\ ~done
    /\ \E c, e \in Callers :
          /\ GotResponse(c) /\ call[c].ret.resp.Result = Value(c)
          /\ call[e].pc = "select" /\ call[e].ch = <<>> /\ call[e].id \in pending

\* ---------------------------------------------------------------------
\* The primitives that collect into the Runtime (ctx_log, queue_add_review),
\* run by handleCallback goroutines.  The Runtime has no mutex:
\* `rt.x = append(rt.x, e)` is a read of the slice followed by a write of
\* it, and the steps of concurrent handlers interleave.

Goroutines == 1..(MaxCallbacks + 1)

Collectors == {"ctx_log", "queue_add_review"}

NoHandler == [pc |-> "idle", fn |-> "", read |-> <<>>, itemID |-> 0]

\* res.agentLog and res.queueItems are the Runtime's slices, res.h the
\* handlers.
RuntimeInit ==
    /\ arg = [fn |-> "runtime"]
    /\ res = [done |-> FALSE, agentLog |-> <<>>, queueItems |-> <<>>,
              h |-> [g \in Goroutines |-> NoHandler]]

\* What handler g appends: its audit entry or its kwargs.
Collected(g) == <<res.h[g].fn, g>>

\* readLoop spawns handleCallback for a callback of primitive fn.
CollectorCalled(g, fn) ==
    /\ arg.fn = "runtime"
    /\ res.h[g].pc = "idle"
    /\ res' = [res EXCEPT !.h[g].pc = "load", !.h[g].fn = fn]
    /\ UNCHANGED <<jvars, bvars, avars, svars, arg>>

\* append(rt.agentLog, ...) or append(rt.queueItems, ...): the read.
AppendLoad(g) ==
    /\ arg.fn = "runtime"
    /\ res.h[g].pc = "load"
    /\ res' = [res EXCEPT !.h[g].pc = "store",
                          !.h[g].read = IF res.h[g].fn = "ctx_log" THEN res.agentLog
                                        ELSE res.queueItems]
    /\ UNCHANGED <<jvars, bvars, avars, svars, arg>>

\* rt.agentLog = ... or rt.queueItems = ...: the write of what was read plus
\* the new element.  ctxLog then returns true.
AppendStore(g) ==
    /\ arg.fn = "runtime"
    /\ res.h[g].pc = "store"
    /\ res' = IF res.h[g].fn = "ctx_log"
              THEN [res EXCEPT !.h[g].pc = "done",
                               !.agentLog = Append(res.h[g].read, Collected(g))]
              ELSE [res EXCEPT !.h[g].pc = "len",
                               !.queueItems = Append(res.h[g].read, Collected(g))]
    /\ UNCHANGED <<jvars, bvars, avars, svars, arg>>

\* queueAddReview returns item_id q%03d of len(rt.queueItems).
QueueReturn(g) ==
    /\ arg.fn = "runtime"
    /\ res.h[g].pc = "len"
    /\ res' = [res EXCEPT !.h[g].pc = "done", !.h[g].itemID = Len(res.queueItems)]
    /\ UNCHANGED <<jvars, bvars, avars, svars, arg>>

InitRuntime == JournalInit /\ BridgeInit /\ RuntimeInit /\ AgentInit /\ StoreInit

NextRuntime ==
    \/ \E g \in Goroutines, fn \in Collectors : CollectorCalled(g, fn)
    \/ \E g \in Goroutines : AppendLoad(g)
    \/ \E g \in Goroutines : AppendStore(g)
    \/ \E g \in Goroutines : QueueReturn(g)

SpecRuntime == InitRuntime /\ [][NextRuntime]_vars

\* The handlers of primitive fn that have appended.
Appended(fn) == {g \in Goroutines : res.h[g].fn = fn /\ res.h[g].pc \in {"len", "done"}}

CountIn(seq, e) == Cardinality({i \in 1..Len(seq) : seq[i] = e})

\* C39: every ctx_log call adds exactly one entry to the collected audit
\* log and every queue_add_review call exactly one item, with an item id no
\* other call returns, also when the handlers run concurrently: nothing is
\* lost and nothing is there twice.
C39_NothingLost ==
    /\ \A g \in Appended("ctx_log") : CountIn(res.agentLog, Collected(g)) = 1
    /\ Len(res.agentLog) = Cardinality(Appended("ctx_log"))
    /\ \A g \in Appended("queue_add_review") : CountIn(res.queueItems, Collected(g)) = 1
    /\ Len(res.queueItems) = Cardinality(Appended("queue_add_review"))
    /\ \A g, k \in Goroutines :
          (g # k /\ res.h[g].pc = "done" /\ res.h[k].pc = "done"
               /\ res.h[g].fn = "queue_add_review" /\ res.h[k].fn = "queue_add_review")
              => res.h[g].itemID # res.h[k].itemID

\* Two queue_add_review calls have returned the same item id.
C39_Witness ==
    \E g, k \in Goroutines :
          /\ g # k
          /\ res.h[g].pc = "done" /\ res.h[k].pc = "done"
          /\ res.h[g].fn = "queue_add_review" /\ res.h[k].fn = "queue_add_review"
          /\ res.h[g].itemID = res.h[k].itemID

\* The rows of a file that are the header row.
HeaderRows(f) == {i \in 1..Len(f.records) : f.records[i] = Header}

\* C40: after any sequence of non-overlapping AddDouble calls every month
\* file that exists starts with the header row and holds no other header
\* row: the header is written only by the call that creates the file, and
\* a call that fails validation creates no file and writes no header.
C40_OneHeader ==
    (w.pc = "idle") =>
        /\ \A p \in Paths :
              IF files[p].exists THEN HeaderRows(files[p]) = {1}
              ELSE files[p].records = <<>>
        /\ last.kind = "error" => files = last.before
        /\ last.kind = "ok" =>
              /\ last.isNew = ~last.before[last.path].exists
              /\ last.isNew = (HeaderRows(last.before[last.path]) = {})

\* The second call of a month has appended its entry to the file the first
\* call created.
C40_Witness ==
    /\ w.pc = "idle"
    /\ last.kind = "ok"
    /\ ~last.isNew
    /\ okCount[last.path] = 2
    /\ Len(files[last.path].records) = 5

====
